---------------------------- MODULE Spec2Model ----------------------------
(* Deep Research orchestration pipeline: ResearchManager.run and the        *)
(* search-count normaliser, modelled from src/deep_research.                *)
(*                                                                          *)
(* A Python string is a sequence of tokens: a literal of the source is one *)
(* token, an interpolated text contributes its own tokens, and              *)
(* concatenation (an f-string) is \o.  str.startswith(marker) is a test on *)
(* the first token.                                                         *)
EXTENDS Integers, Sequences, FiniteSets, TLC

VARIABLES
    call,                 \* arguments of run(): query, n_searches, clarification_answers, trace_id,
                          \* and the instance fields at the time of the call
    pc,                   \* position of the generator body
    events,               \* the stream: every value yielded so far, in order
    n_searches,           \* local n_searches after validate_n_searches
    trace_id,             \* local trace_id after resolution
    clarification_answers,\* local clarification_answers (reset to None at line 119)
    self,                 \* instance fields _clarification_reasoning/_clarification_complexity
    clarification_plan,   \* local clarification_plan (assessor output)
    enhanced_query,       \* local enhanced_query
    planner_output,       \* the planner's list as returned by Runner.run
    search_plan,          \* search_plan.searches after post-processing
    cursor,               \* loop index of the for loop being executed
    tasks,                \* tasks[i]: state of asyncio task i
    finished,             \* completion queue of asyncio.as_completed: task ids in completion order
    collected,            \* task ids whose result the loop has awaited, in that order
    results,              \* local results
    num_completed,        \* local num_completed
    invoked,              \* how often each collaborator was invoked
    writer_input,         \* the input handed to the writer agent
    report,               \* local report (writer output)
    vin,                  \* argument of a stand-alone validate_n_searches call
    vout,                 \* its return value
    ui,                   \* the Gradio components and State values of deep_research.py
    handler,              \* the entry point whose run is in progress, "none" between handlers
    minted,               \* how many trace ids gen_trace_id() has returned
    last_pause,           \* trace id carried by the pause event the UI is waiting on, or None
    resumed_pause,        \* trace id carried by the pause event the current run resumes, or None
    past_traces,          \* the trace ids of the runs that have ended
    llm_debate            \* llm_debate/gradio_ui.py: stream_debate, the patched functions, api_logger

vars == <<call, pc, events, n_searches, trace_id, clarification_answers, self,
          clarification_plan, enhanced_query, planner_output, search_plan, cursor,
          tasks, finished, collected, results, num_completed, invoked,
          writer_input, report, vin, vout, ui, handler, minted, last_pause,
          resumed_pause, past_traces, llm_debate>>

-----------------------------------------------------------------------------
(* Bounds of the model *)

MaxPlanLen == 6        \* longest list the planner returns
MaxQuestions == 2      \* most questions in a clarification plan / answers mapping
MaxStrLen == 3         \* longest string handed to validate_n_searches
MaxAbsInt == 7         \* integers handed to validate_n_searches are in -MaxAbsInt..MaxAbsInt
MaxMinted == 2         \* start_research is clicked while fewer trace ids have been minted

(* Program constants *)

MIN_SEARCHES == 1
MAX_SEARCHES == 5
DEFAULT_SEARCHES == 3

-----------------------------------------------------------------------------
(* Python values handed to validate_n_searches *)

PyNone == [t |-> "none"]
PyInt(v) == [t |-> "int", v |-> v]
PyStr(s) == [t |-> "str", s |-> s]
\* a finite float, in tenths: PyFloat(27) is 2.7
PyFloat(tenths) == [t |-> "float", k |-> "finite", tenths |-> tenths]
PyNaN == [t |-> "float", k |-> "nan"]
PyInf == [t |-> "float", k |-> "inf"]

Chars == {" ", "-", "0", "3", "7", "x"}
Digits == {"0", "3", "7"}

DigitValue(c) == CASE c = "0" -> 0 [] c = "3" -> 3 [] c = "7" -> 7

RECURSIVE SeqsUpTo(_, _)
SeqsUpTo(S, n) ==
    IF n = 0 THEN {<<>>}
    ELSE LET shorter == SeqsUpTo(S, n - 1)
         IN  shorter \cup {Append(s, c) : s \in {x \in shorter : Len(x) = n - 1}, c \in S}

RECURSIVE LStrip(_)
LStrip(s) == IF s # <<>> /\ Head(s) = " " THEN LStrip(Tail(s)) ELSE s

RECURSIVE RStrip(_)
RStrip(s) ==
    IF s # <<>> /\ s[Len(s)] = " " THEN RStrip(SubSeq(s, 1, Len(s) - 1)) ELSE s

StripNothing(s) == s

\* str.strip()
Strip(s) == RStrip(LStrip(s))

RECURSIVE DigitsValue(_, _)
DigitsValue(s, acc) ==
    IF s = <<>> THEN acc ELSE DigitsValue(Tail(s), 10 * acc + DigitValue(Head(s)))

AllDigits(s) == s # <<>> /\ \A i \in 1..Len(s) : s[i] \in Digits

\* int() of a finite float truncates towards zero
Trunc(tenths) == IF tenths >= 0 THEN tenths \div 10 ELSE 0 - ((0 - tenths) \div 10)

\* int(): [ok |-> TRUE, v |-> value], or [ok |-> FALSE, err |-> the exception
\* int() raises]: TypeError for None, ValueError for a string that is not an
\* integer literal and for nan, OverflowError for an infinite float
PyIntOf(x) ==
    CASE x.t = "int" -> [ok |-> TRUE, v |-> x.v]
      [] x.t = "none" -> [ok |-> FALSE, err |-> "TypeError"]
      [] x.t = "float" ->
            IF x.k = "finite" THEN [ok |-> TRUE, v |-> Trunc(x.tenths)]
            ELSE IF x.k = "nan" THEN [ok |-> FALSE, err |-> "ValueError"]
            ELSE [ok |-> FALSE, err |-> "OverflowError"]
      [] x.t = "str" ->
            LET b == Strip(x.s)
                neg == b # <<>> /\ Head(b) = "-"
                d == IF neg THEN Tail(b) ELSE b
            IN  IF AllDigits(d)
                THEN [ok |-> TRUE, v |-> IF neg THEN 0 - DigitsValue(d, 0) ELSE DigitsValue(d, 0)]
                ELSE [ok |-> FALSE, err |-> "ValueError"]

\* truth value of a Python object: None, 0, 0.0 and "" are falsy
Truthy(x) ==
    CASE x.t = "none" -> FALSE
      [] x.t = "int" -> x.v # 0
      [] x.t = "str" -> x.s # <<>>
      [] x.t = "float" -> ~(x.k = "finite" /\ x.tenths = 0)

ClampNoUpper(v) == IF v < MIN_SEARCHES THEN MIN_SEARCHES ELSE v

\* the guardrails of validate_n_searches
Clamp(v) ==
    IF v < MIN_SEARCHES THEN MIN_SEARCHES
    ELSE IF v > MAX_SEARCHES THEN MAX_SEARCHES
    ELSE v

\* the exceptions `except (ValueError, TypeError)` catches
Caught == {"ValueError", "TypeError"}

\* int() raises an exception that line 23 does not catch: it leaves the function
ValidateRaises(x) == Truthy(x) /\ ~PyIntOf(x).ok /\ PyIntOf(x).err \notin Caught

\* the value returned when nothing leaves the function
validate_n_searches(x) ==
    IF ~Truthy(x) THEN Clamp(DEFAULT_SEARCHES)
    ELSE LET p == PyIntOf(x)
         IN  IF p.ok THEN Clamp(p.v) ELSE DEFAULT_SEARCHES

\* the floats 0.0, 0.5, 2.7, -1.5 and 9.9, in tenths
FloatTenths == {0, 5, 27, 0 - 15, 99}

ValidateInputs ==
    {PyNone} \cup {PyInt(v) : v \in (0 - MaxAbsInt)..MaxAbsInt}
             \cup {PyStr(s) : s \in SeqsUpTo(Chars, MaxStrLen)}
             \cup {PyFloat(f) : f \in FloatTenths} \cup {PyNaN, PyInf}

-----------------------------------------------------------------------------
(* Texts, events and the values the collaborators return *)

RECURSIVE IntStr(_)
\* str() of a non-negative integer, one token per digit
IntStr(n) ==
    LET d == n % 10
        tok == CASE d = 0 -> "0" [] d = 1 -> "1" [] d = 2 -> "2" [] d = 3 -> "3"
                 [] d = 4 -> "4" [] d = 5 -> "5" [] d = 6 -> "6" [] d = 7 -> "7"
                 [] d = 8 -> "8" [] d = 9 -> "9"
    IN  IF n < 10 THEN <<tok>> ELSE IntStr(n \div 10) \o <<tok>>

\* str.startswith(marker)
StartsWith(s, marker) == s # <<>> /\ s[1] = marker

RECURSIVE CountTok(_, _)
CountTok(s, tok) ==
    IF s = <<>> THEN 0
    ELSE (IF Head(s) = tok THEN 1 ELSE 0) + CountTok(Tail(s), tok)

CLARIFICATION_MARKER == "CLARIFICATION_NEEDED:"
TRACE_MARKER == "|TRACE_ID:"
SKIP == PyStr(<<"SKIP">>)
ANSWER_SKIPPED == <<"Answer skipped">>

PyDict(items) == [t |-> "dict", items |-> items]

QuestionText(i) == <<"Q">> \o IntStr(i)
PurposeText(i) == <<"P">> \o IntStr(i)

\* clarification_agent.py: the FollowUpQuestion list of a ClarificationPlan
FollowUpQuestions(k) == [i \in 1..k |-> [question |-> QuestionText(i), purpose |-> PurposeText(i)]]

Complexities == {1, 3}

\* the values Runner.run(clarification_agent, ...) can return
ClarificationPlans ==
    {[assessment |-> [complexity |-> c, reasoning |-> <<"because">>],
      questions |-> FollowUpQuestions(k),
      should_ask_questions |-> b] :
        c \in Complexities, k \in 0..MaxQuestions, b \in BOOLEAN}

\* texts an assessor can write into a question or into its reasoning: free
\* text, which may hold the characters of either marker of the pause event
PlanTexts == {<<"plain">>, <<"about ">>, <<"about ", "CLARIFICATION_NEEDED:">>,
              <<"about ", "|TRACE_ID:">>}

\* clarification_agent.py: plans that ask, with any text in their str fields
FreeTextPlans ==
    {[assessment |-> [complexity |-> c, reasoning |-> r],
      questions |-> [i \in 1..Len(qs) |-> [question |-> qs[i], purpose |-> <<"P">>]],
      should_ask_questions |-> TRUE] :
        c \in Complexities, r \in PlanTexts, qs \in SeqsUpTo(PlanTexts, MaxQuestions)}

NoPlan == [assessment |-> [complexity |-> 0, reasoning |-> <<>>],
           questions |-> <<>>, should_ask_questions |-> FALSE]

WebSearchItem(i) ==
    [reason |-> <<"reason">> \o IntStr(i), query |-> <<"term">> \o IntStr(i)]

\* the lists Runner.run(planner_agent, ...) can return: WebSearchPlan.searches
\* carries no length constraint
PlannerLists == {[i \in 1..k |-> WebSearchItem(i)] : k \in 0..MaxPlanLen}

ReportBodies == {<<"# Report", "body">>, <<"# Final report for", "body">>}

\* the values Runner.run(writer_agent, ...) can return
ReportDatas == {[markdown_report |-> b] : b \in ReportBodies}

NoReport == [markdown_report |-> <<>>]

\* a report whose text begins with the text of the clarification marker
MarkedReportDatas == {[markdown_report |-> <<"CLARIFICATION_NEEDED:", "body">>]}

-----------------------------------------------------------------------------
(* The strings ResearchManager.run builds *)

\* line 39 (the leading emoji of the literal is left out)
TraceLinkEvent(tid) ==
    <<"[View trace](https://platform.openai.com/traces/trace?trace_id=">> \o tid \o <<")">>

JsonString(text) == <<"\"">> \o text \o <<"\"">>

RECURSIVE JsonQuestions(_)
JsonQuestions(qs) ==
    IF qs = <<>> THEN <<>>
    ELSE <<"{\"question\":">> \o JsonString(Head(qs).question)
         \o <<",\"purpose\":">> \o JsonString(Head(qs).purpose) \o <<"}">>
         \o (IF Tail(qs) = <<>> THEN <<>> ELSE <<",">>) \o JsonQuestions(Tail(qs))

\* ClarificationPlan.model_dump_json()
ModelDumpJson(plan) ==
    <<"{\"assessment\":{\"complexity\":">> \o IntStr(plan.assessment.complexity)
    \o <<",\"reasoning\":">> \o JsonString(plan.assessment.reasoning)
    \o <<"},\"questions\":[">> \o JsonQuestions(plan.questions)
    \o <<"],\"should_ask_questions\":">>
    \o (IF plan.should_ask_questions THEN <<"true">> ELSE <<"false">>) \o <<"}">>

\* line 80
ClarificationNeededEvent(plan, tid) ==
    <<CLARIFICATION_MARKER>> \o ModelDumpJson(plan) \o <<TRACE_MARKER>> \o tid

WhyEvent(reasoning) == <<"**Why clarification was requested:** ">> \o reasoning \o <<" \n">>
ComplexityEvent(c) == <<"**Query complexity level:** ">> \o IntStr(c) \o <<"/3 \n">>
QuestionEvent(i, question) == <<"**Question ">> \o IntStr(i) \o <<":** ">> \o question \o <<" \t">>

AnswerEventVerbatim(answer) == <<"**Answer:** ">> \o answer \o <<" \t">>

\* lines 106-111
AnswerEvent(answer) ==
    IF answer = ANSWER_SKIPPED THEN <<"**Answer:** *[Skipped]* \t">>
    ELSE IF answer = <<>> \/ Strip(answer) = <<>> THEN <<"**Answer:** *[Left blank]* \t">>
    ELSE <<"**Answer:** ">> \o answer \o <<" \t">>

WillPerformEventRequested(k, n) ==
    <<"Will perform **">> \o IntStr(n) \o <<"** searches (validated: ">> \o IntStr(n)
    \o <<" requested) \n">>

\* line 172
WillPerformEvent(k, n) ==
    <<"Will perform **">> \o IntStr(k) \o <<"** searches (validated: ">> \o IntStr(n)
    \o <<" requested) \n">>

ItemQueryEvent(item) == <<"Query: **">> \o item.query \o <<"** \t">>
ItemReasonEvent(item) == <<"Reason: ">> \o item.reason \o <<" \n">>

\* line 187
CompletedEvent(k, total) ==
    <<"Searching... ">> \o IntStr(k) \o <<"/">> \o IntStr(total) \o <<" completed \n">>

\* repr() of a list element: a quoted string, or None
Repr(x) == IF x = PyNone THEN <<"None">> ELSE <<"'">> \o x.s \o <<"'">>

RECURSIVE ListRepr(_)
\* the items of str(list), comma separated
ListRepr(xs) ==
    IF xs = <<>> THEN <<>>
    ELSE Repr(Head(xs))
         \o (IF Tail(xs) = <<>> THEN <<>> ELSE <<", ">>) \o ListRepr(Tail(xs))

\* line 192
WriterInput(query, res) ==
    <<"Original query: ">> \o query \o <<"\n Summarized search results: ">>
    \o <<"[">> \o ListRepr(res) \o <<"]">>

RECURSIVE EnhancedPairs(_)
\* lines 222-223
EnhancedPairs(items) ==
    IF items = <<>> THEN <<>>
    ELSE <<"Q: ">> \o Head(items)[1] \o <<"\nA: ">> \o Head(items)[2] \o <<"\n\n">>
         \o EnhancedPairs(Tail(items))

NoAnswersOrAllSkipped(answers) ==
    \/ answers = PyNone
    \/ answers.t = "dict" /\ \A i \in 1..Len(answers.items) : answers.items[i][2] = ANSWER_SKIPPED

build_enhanced_queryNoContext(original_query, answers) == <<"Query: ">> \o original_query

\* `not clarification_answers`: None and the empty dict are falsy
NoAnswers(answers) == answers = PyNone \/ (answers.t = "dict" /\ answers.items = <<>>)

build_enhanced_query(original_query, answers) ==
    IF NoAnswers(answers) THEN <<"Query: ">> \o original_query
    ELSE <<"Original Query: ">> \o original_query
         \o <<"\n\nAdditional Context from User:\n">> \o EnhancedPairs(answers.items)

PostProcessNoCut(searches, n) == searches

\* lines 169-170
PostProcess(searches, n) ==
    IF Len(searches) > n THEN SubSeq(searches, 1, n) ELSE searches

-----------------------------------------------------------------------------
(* ResearchManager.run: one action per step of the generator.  A pc named   *)
(* y_... is the generator suspended at that yield; await_... is the         *)
(* generator waiting for a collaborator.                                    *)

searchVars == <<tasks, finished, collected, results, num_completed>>
\* what the research pipeline and its handlers never touch
validateVars == <<vin, vout, llm_debate>>
uiVars == <<ui, handler, minted, last_pause, resumed_pause, past_traces>>

Yield(event, next) == events' = Append(events, event) /\ pc' = next

Invoke(who) == invoked' = [invoked EXCEPT ![who] = @ + 1]

\* gen_trace_id() of the agents SDK: the k-th id it returns, a new one each time
gen_trace_id(k) == <<"trace_minted">> \o IntStr(k)

ResolveAlwaysMint(tid, k) == PyStr(gen_trace_id(k + 1))

\* lines 34-35: the trace id used is the one supplied, or a new one when none
\* is; k ids have been minted before
ResolveTraceId(tid, k) == IF tid = PyNone THEN PyStr(gen_trace_id(k + 1)) ELSE tid

IsFirstAttemptAlways(answers) == TRUE

\* lines 38 and 44: `clarification_answers is None`
IsFirstAttempt(answers) == answers = PyNone

\* lines 28-46 and 93-95: the body up to the first yield
Start ==
    /\ pc = "start"
    /\ n_searches' = validate_n_searches(call.n_searches)
    /\ trace_id' = ResolveTraceId(trace_id, minted)
    /\ minted' = IF trace_id' = trace_id THEN minted ELSE minted + 1
    /\ IF IsFirstAttempt(clarification_answers)
       THEN Yield(TraceLinkEvent(trace_id'.s), "y_trace")
       ELSE Yield(<<"## Clarification Questions & Answers">>, "y_qa_header")
    /\ UNCHANGED <<call, clarification_answers, self, clarification_plan, enhanced_query,
                   planner_output, search_plan, cursor, searchVars, invoked,
                   writer_input, report, validateVars, ui, handler, last_pause, resumed_pause,
                   past_traces>>

\* line 46
AnalyzingStep ==
    /\ pc = "y_trace"
    /\ Yield(<<"## Analyzing query complexity...">>, "y_analyzing")
    /\ UNCHANGED <<call, n_searches, trace_id, clarification_answers, self,
                   clarification_plan, enhanced_query, planner_output, search_plan,
                   cursor, searchVars, invoked, writer_input, report, validateVars, uiVars>>

\* lines 51-54: the assessor is called with the raw query
InvokeAssessor ==
    /\ pc = "y_analyzing"
    /\ pc' = "await_assessor"
    /\ Invoke("assessor")
    /\ UNCHANGED <<call, events, n_searches, trace_id, clarification_answers, self,
                   clarification_plan, enhanced_query, planner_output, search_plan,
                   cursor, searchVars, writer_input, report, validateVars, uiVars>>

\* lines 117-157: reset of the SKIP sentinel, build_enhanced_query, next yield
PlanStage ==
    /\ clarification_answers' =
           IF clarification_answers = SKIP THEN PyNone ELSE clarification_answers
    /\ enhanced_query' = build_enhanced_query(call.query, clarification_answers')
    /\ Yield(<<"## Generating search plan...">>, "y_generating")

ShouldAskAlwaysFalse(plan) == FALSE

ShouldAskAlwaysTrue(plan) == TRUE

\* line 71
ShouldAsk(plan) == plan.should_ask_questions

\* lines 58-85: the assessor returned one of plans
AssessorReturnsFrom(plans) ==
    /\ pc = "await_assessor"
    /\ \E plan \in plans :
          /\ clarification_plan' = plan
          /\ IF ShouldAsk(plan)
             THEN /\ self' = [has |-> TRUE,
                              reasoning |-> plan.assessment.reasoning,
                              complexity |-> plan.assessment.complexity]
                  /\ Yield(ClarificationNeededEvent(plan, trace_id.s), "y_pause")
                  /\ UNCHANGED <<clarification_answers, enhanced_query>>
             ELSE /\ PlanStage
                  /\ UNCHANGED self
    /\ UNCHANGED <<call, n_searches, trace_id, planner_output, search_plan, cursor,
                   searchVars, invoked, writer_input, report, validateVars, uiVars>>

\* lines 51-85: Runner.run(clarification_agent, ...) returns
AssessorReturns == AssessorReturnsFrom(ClarificationPlans)

\* the same return, with a plan whose texts are free
AssessorReturnsFreeText == AssessorReturnsFrom(FreeTextPlans)

AssessorRaisesUncaught ==
    /\ pc = "await_assessor"
    /\ pc' = "failed"
    /\ UNCHANGED <<call, events, n_searches, trace_id, clarification_answers, self,
                   clarification_plan, enhanced_query, planner_output, search_plan,
                   cursor, tasks, finished, collected, results, num_completed, invoked,
                   writer_input, report, vin, vout, llm_debate, uiVars>>

\* lines 87-92: Runner.run or final_output_as raised; the exception is swallowed
AssessorRaises ==
    /\ pc = "await_assessor"
    /\ PlanStage
    /\ UNCHANGED <<call, n_searches, trace_id, self, clarification_plan, planner_output,
                   search_plan, cursor, searchVars, invoked, writer_input, report,
                   validateVars, uiVars>>

\* line 82: return after the pause event
PauseReturn ==
    /\ pc = "y_pause"
    /\ pc' = "done"
    /\ UNCHANGED <<call, events, n_searches, trace_id, clarification_answers, self,
                   clarification_plan, enhanced_query, planner_output, search_plan,
                   cursor, searchVars, invoked, writer_input, report, validateVars, uiVars>>

\* everything a step that only yields leaves alone
frame == <<call, n_searches, trace_id, clarification_answers, self, clarification_plan,
           enhanced_query, planner_output, search_plan, searchVars, invoked,
           writer_input, report, validateVars, uiVars>>

\* lines 103-115: entering the echo of the answers
EnterAnswers ==
    IF clarification_answers # SKIP
    THEN IF clarification_answers.items # <<>>
         THEN /\ cursor' = 1
              /\ Yield(QuestionEvent(1, clarification_answers.items[1][1]), "y_question")
         ELSE /\ cursor' = cursor
              /\ Yield(<<>>, "y_qa_end")
    ELSE /\ cursor' = cursor
         /\ Yield(<<"*All clarification questions were skipped*">>, "y_all_skipped")

\* lines 98-99
HeaderStep ==
    /\ pc = "y_qa_header"
    /\ IF self.has
       THEN Yield(WhyEvent(self.reasoning), "y_why") /\ cursor' = cursor
       ELSE EnterAnswers
    /\ UNCHANGED frame

\* line 100
WhyStep ==
    /\ pc = "y_why"
    /\ Yield(ComplexityEvent(self.complexity), "y_complexity")
    /\ UNCHANGED <<frame, cursor>>

\* line 101
ComplexityStep ==
    /\ pc = "y_complexity"
    /\ Yield(<<>>, "y_why_blank")
    /\ UNCHANGED <<frame, cursor>>

WhyBlankStep ==
    /\ pc = "y_why_blank"
    /\ EnterAnswers
    /\ UNCHANGED frame

\* lines 106-111
QuestionStep ==
    /\ pc = "y_question"
    /\ Yield(AnswerEvent(clarification_answers.items[cursor][2]), "y_answer")
    /\ UNCHANGED <<frame, cursor>>

\* line 112
AnswerStep ==
    /\ pc = "y_answer"
    /\ Yield(<<>>, "y_pair_blank")
    /\ UNCHANGED <<frame, cursor>>

\* lines 104-105 (next pair) or line 115 (after the last pair)
PairBlankStep ==
    /\ pc = "y_pair_blank"
    /\ IF cursor < Len(clarification_answers.items)
       THEN /\ cursor' = cursor + 1
            /\ Yield(QuestionEvent(cursor + 1, clarification_answers.items[cursor + 1][1]),
                     "y_question")
       ELSE /\ cursor' = cursor
            /\ Yield(<<>>, "y_qa_end")
    /\ UNCHANGED frame

\* line 115
AllSkippedStep ==
    /\ pc = "y_all_skipped"
    /\ Yield(<<>>, "y_qa_end")
    /\ UNCHANGED <<frame, cursor>>

\* lines 117-157 on the resume path
AnswersEndStep ==
    /\ pc = "y_qa_end"
    /\ PlanStage
    /\ UNCHANGED <<call, n_searches, trace_id, self, clarification_plan, planner_output,
                   search_plan, cursor, searchVars, invoked, writer_input, report,
                   validateVars, uiVars>>

\* lines 161-165
InvokePlanner ==
    /\ pc = "y_generating"
    /\ pc' = "await_planner"
    /\ Invoke("planner")
    /\ UNCHANGED <<call, events, n_searches, trace_id, clarification_answers, self,
                   clarification_plan, enhanced_query, planner_output, search_plan,
                   cursor, searchVars, writer_input, report, validateVars, uiVars>>

\* lines 166-172
PlannerReturns ==
    /\ pc = "await_planner"
    /\ \E searches \in PlannerLists :
          /\ planner_output' = searches
          /\ search_plan' = PostProcess(searches, n_searches)
          /\ Yield(WillPerformEvent(Len(search_plan'), n_searches), "y_will_perform")
    /\ UNCHANGED <<call, n_searches, trace_id, clarification_answers, self,
                   clarification_plan, enhanced_query, cursor, searchVars, invoked,
                   writer_input, report, validateVars, uiVars>>

\* lines 162-166: the planner call is not inside any try
PlannerRaises ==
    /\ pc = "await_planner"
    /\ pc' = "failed"
    /\ UNCHANGED <<call, events, n_searches, trace_id, clarification_answers, self,
                   clarification_plan, enhanced_query, planner_output, search_plan,
                   cursor, searchVars, invoked, writer_input, report, validateVars, uiVars>>

\* lines 173-178: the next item of the plan, or the end of the listing
ListItemOrSearching(i) ==
    IF i <= Len(search_plan)
    THEN /\ cursor' = i
         /\ Yield(ItemQueryEvent(search_plan[i]), "y_item_query")
    ELSE /\ cursor' = cursor
         /\ Yield(<<"## Searching...">>, "y_searching")

WillPerformStep ==
    /\ pc = "y_will_perform"
    /\ ListItemOrSearching(1)
    /\ UNCHANGED frame

\* line 175
ItemQueryStep ==
    /\ pc = "y_item_query"
    /\ Yield(ItemReasonEvent(search_plan[cursor]), "y_item_reason")
    /\ UNCHANGED <<frame, cursor>>

ItemReasonStep ==
    /\ pc = "y_item_reason"
    /\ ListItemOrSearching(cursor + 1)
    /\ UNCHANGED frame

-----------------------------------------------------------------------------
(* SEARCH: lines 178-188 and ResearchManager.search *)

Running == [done |-> FALSE, result |-> PyNone]

PyExc == [t |-> "exception"]

\* how the body of the try in search() can end: it returns the summary
\* (line 211, standing in for the agent call of lines 206-210) or it raises
SearchBodyOutcomes == {"returns", "raises"}

searchNoExcept(outcome) == IF outcome = "returns" THEN PyStr(<<"test">>) ELSE PyExc

\* lines 202-213: what the task of search(item) ends with; `except Exception`
\* turns a raise into None
search(outcome) == IF outcome = "returns" THEN PyStr(<<"test">>) ELSE PyNone

\* lines 179-181: all tasks are created before the loop awaits anything
LaunchSearches ==
    /\ pc = "y_searching"
    /\ num_completed' = 0
    /\ tasks' = [i \in 1..Len(search_plan) |-> Running]
    /\ results' = <<>>
    /\ finished' = <<>>
    /\ collected' = <<>>
    /\ invoked' = [invoked EXCEPT !["search"] = @ + Len(search_plan)]
    /\ IF Len(search_plan) = 0
       THEN Yield(<<"Finished searching \n">>, "y_finished_searching")
       ELSE pc' = "await_task" /\ events' = events
    /\ UNCHANGED <<call, n_searches, trace_id, clarification_answers, self,
                   clarification_plan, enhanced_query, planner_output, search_plan,
                   cursor, writer_input, report, validateVars, uiVars>>

TaskFinishesOnlyWhenAwaited ==
    /\ pc = "await_task"
    /\ \E i \in 1..Len(tasks), outcome \in SearchBodyOutcomes :
          /\ ~tasks[i].done
          /\ tasks' = [tasks EXCEPT ![i] = [done |-> TRUE, result |-> search(outcome)]]
          /\ finished' = Append(finished, i)
    /\ UNCHANGED <<call, pc, events, n_searches, trace_id, clarification_answers, self,
                   clarification_plan, enhanced_query, planner_output, search_plan,
                   cursor, collected, results, num_completed, invoked, writer_input,
                   report, validateVars, uiVars>>

TaskFinishesAndAppends ==
    /\ \E i \in 1..Len(tasks), outcome \in SearchBodyOutcomes :
          /\ ~tasks[i].done
          /\ tasks' = [tasks EXCEPT ![i] = [done |-> TRUE, result |-> search(outcome)]]
          /\ finished' = Append(finished, i)
          /\ results' = IF search(outcome) # PyNone THEN Append(results, search(outcome))
                        ELSE results
    /\ UNCHANGED <<call, pc, events, n_searches, trace_id, clarification_answers, self,
                   clarification_plan, enhanced_query, planner_output, search_plan,
                   cursor, collected, num_completed, invoked, writer_input,
                   report, validateVars, uiVars>>

\* a search task runs to its end, whatever the generator is doing
TaskFinishes ==
    /\ \E i \in 1..Len(tasks), outcome \in SearchBodyOutcomes :
          /\ ~tasks[i].done
          /\ tasks' = [tasks EXCEPT ![i] = [done |-> TRUE, result |-> search(outcome)]]
          /\ finished' = Append(finished, i)
    /\ UNCHANGED <<call, pc, events, n_searches, trace_id, clarification_answers, self,
                   clarification_plan, enhanced_query, planner_output, search_plan,
                   cursor, collected, results, num_completed, invoked, writer_input,
                   report, validateVars, uiVars>>

InSubmissionOrder == 
    IF tasks[Len(collected) + 1].done THEN Len(collected) + 1 ELSE 0

\* line 182: asyncio.as_completed hands out the tasks in the order they finish;
\* 0 when the loop has to wait
AsCompleted ==
    IF Len(collected) < Len(finished) THEN finished[Len(collected) + 1] ELSE 0

KeepAlways(result) == TRUE

\* line 184
Keep(result) == result # PyNone

\* lines 183-187; `await task` re-raises what the task ended with
CollectStep ==
    /\ pc = "await_task"
    /\ AsCompleted # 0
    /\ collected' = Append(collected, AsCompleted)
    /\ LET result == tasks[AsCompleted].result
       IN  IF result = PyExc
           THEN /\ pc' = "failed"
                /\ UNCHANGED <<events, results, num_completed>>
           ELSE /\ results' = IF Keep(result) THEN Append(results, result) ELSE results
                /\ num_completed' = num_completed + 1
                /\ Yield(CompletedEvent(num_completed', Len(tasks)), "y_completed")
    /\ UNCHANGED <<call, n_searches, trace_id, clarification_answers, self,
                   clarification_plan, enhanced_query, planner_output, search_plan,
                   cursor, tasks, finished, invoked, writer_input, report,
                   validateVars, uiVars>>

CompletedStepLeavesEarly ==
    /\ pc = "y_completed"
    /\ Yield(<<"Finished searching \n">>, "y_finished_searching")
    /\ UNCHANGED <<frame, cursor>>

\* lines 182 and 188: back into the loop, or out of it
CompletedStep ==
    /\ pc = "y_completed"
    /\ IF num_completed < Len(tasks)
       THEN pc' = "await_task" /\ events' = events
       ELSE Yield(<<"Finished searching \n">>, "y_finished_searching")
    /\ UNCHANGED <<frame, cursor>>

-----------------------------------------------------------------------------
(* SYNTHESIZE: lines 190-200 *)

FinishedSearchingInvokesWriter ==
    /\ pc = "y_finished_searching"
    /\ writer_input' = WriterInput(call.query, results)
    /\ pc' = "await_writer"
    /\ Invoke("writer")
    /\ UNCHANGED <<call, events, n_searches, trace_id, clarification_answers, self,
                   clarification_plan, enhanced_query, planner_output, search_plan,
                   cursor, searchVars, report, validateVars, uiVars>>

\* line 191
FinishedSearchingStep ==
    /\ pc = "y_finished_searching"
    /\ Yield(<<"## Thinking about report...">>, "y_thinking")
    /\ UNCHANGED <<frame, cursor>>

\* lines 192-196
InvokeWriter ==
    /\ pc = "y_thinking"
    /\ writer_input' = WriterInput(call.query, results)
    /\ pc' = "await_writer"
    /\ Invoke("writer")
    /\ UNCHANGED <<call, events, n_searches, trace_id, clarification_answers, self,
                   clarification_plan, enhanced_query, planner_output, search_plan,
                   cursor, searchVars, report, validateVars, uiVars>>

\* lines 197-198
WriterReturns ==
    /\ pc = "await_writer"
    /\ \E r \in ReportDatas :
          /\ report' = r
          /\ Yield(<<"Finished writing report">>, "y_finished_writing")
    /\ UNCHANGED <<call, n_searches, trace_id, clarification_answers, self,
                   clarification_plan, enhanced_query, planner_output, search_plan,
                   cursor, searchVars, invoked, writer_input, validateVars, uiVars>>

\* lines 197-198, for a writer whose report begins with the marker text
WriterReturnsMarked ==
    /\ pc = "await_writer"
    /\ \E r \in MarkedReportDatas :
          /\ report' = r
          /\ Yield(<<"Finished writing report">>, "y_finished_writing")
    /\ UNCHANGED <<call, n_searches, trace_id, clarification_answers, self,
                   clarification_plan, enhanced_query, planner_output, search_plan,
                   cursor, searchVars, invoked, writer_input, validateVars, uiVars>>

WriterRaisesAfterFinished ==
    /\ pc = "await_writer"
    /\ Yield(<<"Finished writing report">>, "failed")
    /\ UNCHANGED <<call, n_searches, trace_id, clarification_answers, self,
                   clarification_plan, enhanced_query, planner_output, search_plan,
                   cursor, searchVars, invoked, writer_input, report, validateVars, uiVars>>

\* lines 193-197: the writer call is not inside any try
WriterRaises ==
    /\ pc = "await_writer"
    /\ pc' = "failed"
    /\ UNCHANGED <<call, events, n_searches, trace_id, clarification_answers, self,
                   clarification_plan, enhanced_query, planner_output, search_plan,
                   cursor, searchVars, invoked, writer_input, report, validateVars, uiVars>>

\* line 200
FinishedWritingStep ==
    /\ pc = "y_finished_writing"
    /\ Yield(report.markdown_report, "y_report")
    /\ UNCHANGED <<frame, cursor>>

\* the end of the generator body
ReportStep ==
    /\ pc = "y_report"
    /\ pc' = "done"
    /\ UNCHANGED <<frame, events, cursor>>

-----------------------------------------------------------------------------
(* The calls of run() and the specifications *)

AnswerTexts == {ANSWER_SKIPPED, <<>>, <<" ">>, <<"yes">>}

\* the answers mappings: a dict keeps insertion order and its keys are distinct
AnswerDicts ==
    UNION {{PyDict([i \in 1..k |-> <<QuestionText(i), a[i]>>]) : a \in [1..k -> AnswerTexts]} :
              k \in 0..MaxQuestions}

NoFields == [has |-> FALSE, reasoning |-> <<>>, complexity |-> 0]

\* json.dumps(v): the text of a JSON document, by the value it encodes
JsonText(v) == [t |-> "json", v |-> v]

\* a text that is no JSON document
MalformedJson == PyStr(<<"{oops">>)

\* run_research (deep_research.py lines 54-56) may set the fields before run()
StoredFields == [has |-> TRUE, reasoning |-> <<"stored why">>, complexity |-> 2]

\* deep_research.py lines 260-303: the components and State values before the
\* first handler
\* gradio_ui.py of llm_debate before stream_debate is called: no function is
\* patched (a function is the number of wrappers around the original), no
\* original is saved, api_logger.calls is empty
NoDebate ==
    [pc |-> "idle", motion |-> <<>>, outputs |-> <<>>, chat_messages |-> <<>>,
     stage |-> 0, started |-> <<>>, finished |-> <<>>, calls |-> 0, runs |-> 0,
     litellm_completion |-> 0, openai_create |-> 0, anthropic_create |-> 0,
     original_litellm |-> PyNone, original_openai |-> PyNone,
     original_anthropic |-> PyNone,
     env |-> [litellm |-> "installed", openai |-> "installed", anthropic |-> "absent"]]

NoUi == [query |-> <<>>, n_searches_input |-> PyStr(<<>>),
         status |-> <<>>, report |-> <<>>, history |-> <<>>,
         clarification_display |-> <<>>, answers_text |-> <<>>,
         search_validation |-> <<>>,
         stored_questions |-> PyStr(<<>>),
         clarification_needed |-> FALSE, current_trace_id |-> PyStr(<<>>),
         stored_assessment |-> PyStr(<<>>)]

TraceIds == {PyNone, PyStr(<<"trace_given">>)}

\* the calls of the main specification: first calls and resume calls of every kind
Calls ==
    [query : {<<"q">>}, n_searches : {PyInt(1)},
     clarification_answers : {PyNone, SKIP} \cup AnswerDicts, trace_id : TraceIds,
     fields : {NoFields, StoredFields}]

\* resume calls with the counts 3 (the default), 4 and 5 (clamped)
FanOutCalls ==
    [query : {<<"q">>}, n_searches : {PyStr(<<>>), PyInt(4), PyStr(<<"7">>)},
     clarification_answers : {SKIP, PyDict(<<<<QuestionText(1), <<"yes">>>>>>)},
     trace_id : {PyStr(<<"trace_given">>)}, fields : {StoredFields}]

InitRun(calls) ==
    /\ call \in calls
    /\ self = call.fields
    /\ pc = "start"
    /\ events = <<>>
    /\ n_searches = 0
    /\ trace_id = call.trace_id
    /\ clarification_answers = call.clarification_answers
    /\ clarification_plan = NoPlan
    /\ enhanced_query = <<>>
    /\ planner_output = <<>>
    /\ search_plan = <<>>
    /\ cursor = 0
    /\ tasks = <<>>
    /\ finished = <<>>
    /\ collected = <<>>
    /\ results = <<>>
    /\ num_completed = 0
    /\ invoked = [assessor |-> 0, planner |-> 0, search |-> 0, writer |-> 0]
    /\ writer_input = <<>>
    /\ report = NoReport
    /\ vin = PyNone
    /\ vout = 0
    /\ ui = NoUi
    /\ handler = "direct"
    /\ minted = 0
    /\ last_pause = PyNone
    /\ resumed_pause = PyNone
    /\ past_traces = {}
    /\ llm_debate = NoDebate

Init == InitRun(Calls)

Next ==
    \/ Start
    \/ AnalyzingStep
    \/ InvokeAssessor
    \/ AssessorReturns
    \/ AssessorRaises
    \/ PauseReturn
    \/ HeaderStep
    \/ WhyStep
    \/ ComplexityStep
    \/ WhyBlankStep
    \/ QuestionStep
    \/ AnswerStep
    \/ PairBlankStep
    \/ AllSkippedStep
    \/ AnswersEndStep
    \/ InvokePlanner
    \/ PlannerReturns
    \/ PlannerRaises
    \/ WillPerformStep
    \/ ItemQueryStep
    \/ ItemReasonStep
    \/ LaunchSearches
    \/ TaskFinishes
    \/ CollectStep
    \/ CompletedStep
    \/ FinishedSearchingStep
    \/ InvokeWriter
    \/ WriterReturns
    \/ WriterRaises
    \/ FinishedWritingStep
    \/ ReportStep

Spec == Init /\ [][Next]_vars

\* the same calls, with a writer that is free to begin its report with the
\* text of the clarification marker
NextAnyReport == Next \/ WriterReturnsMarked

SpecAnyReport == Init /\ [][NextAnyReport]_vars

InitFanOut == InitRun(FanOutCalls)

\* the steps of a resume call
NextFanOut ==
    \/ Start
    \/ HeaderStep
    \/ WhyStep
    \/ ComplexityStep
    \/ WhyBlankStep
    \/ QuestionStep
    \/ AnswerStep
    \/ PairBlankStep
    \/ AllSkippedStep
    \/ AnswersEndStep
    \/ InvokePlanner
    \/ PlannerReturns
    \/ PlannerRaises
    \/ WillPerformStep
    \/ ItemQueryStep
    \/ ItemReasonStep
    \/ LaunchSearches
    \/ TaskFinishes
    \/ CollectStep
    \/ CompletedStep
    \/ FinishedSearchingStep
    \/ InvokeWriter
    \/ WriterReturns
    \/ WriterRaises
    \/ FinishedWritingStep
    \/ ReportStep

SpecFanOut == InitFanOut /\ [][NextFanOut]_vars

-----------------------------------------------------------------------------
(* validate_n_searches on its own *)

InitValidate ==
    /\ vin \in ValidateInputs
    /\ vout = 0
    /\ call = [query |-> <<>>, n_searches |-> PyNone, clarification_answers |-> PyNone,
               trace_id |-> PyNone, fields |-> NoFields]
    /\ self = NoFields
    /\ pc = "idle"
    /\ events = <<>>
    /\ n_searches = 0
    /\ trace_id = PyNone
    /\ clarification_answers = PyNone
    /\ clarification_plan = NoPlan
    /\ enhanced_query = <<>>
    /\ planner_output = <<>>
    /\ search_plan = <<>>
    /\ cursor = 0
    /\ tasks = <<>>
    /\ finished = <<>>
    /\ collected = <<>>
    /\ results = <<>>
    /\ num_completed = 0
    /\ invoked = [assessor |-> 0, planner |-> 0, search |-> 0, writer |-> 0]
    /\ writer_input = <<>>
    /\ report = NoReport
    /\ ui = NoUi
    /\ handler = "direct"
    /\ minted = 0
    /\ last_pause = PyNone
    /\ resumed_pause = PyNone
    /\ past_traces = {}
    /\ llm_debate = NoDebate

\* research_manager.py lines 13-24 (deep_research.py lines 13-24 is the same text)
ValidateCall ==
    /\ pc = "idle"
    /\ IF ValidateRaises(vin)
       THEN vout' = vout /\ pc' = "raised"
       ELSE vout' = validate_n_searches(vin) /\ pc' = "returned"
    /\ UNCHANGED <<call, events, n_searches, trace_id, clarification_answers, self,
                   clarification_plan, enhanced_query, planner_output, search_plan,
                   cursor, searchVars, invoked, writer_input, report, vin, llm_debate,
                   uiVars>>

NextValidate == ValidateCall

SpecValidate == InitValidate /\ [][NextValidate]_vars

-----------------------------------------------------------------------------
(* run_research (deep_research.py lines 26-84): the consumer of the stream *)

FINAL_REPORT_MARKER == "# Final report for"

RECURSIVE RemoveTok(_, _)
\* str.replace(tok, "")
RemoveTok(s, tok) ==
    IF s = <<>> THEN <<>>
    ELSE (IF Head(s) = tok THEN <<>> ELSE <<Head(s)>>) \o RemoveTok(Tail(s), tok)

\* position of the first tok in s (s holds one)
IndexOfTok(s, tok) == CHOOSE k \in 1..Len(s) : s[k] = tok /\ \A j \in 1..(k - 1) : s[j] # tok

Last(s) == s[Len(s)]

\* the text after '|TRACE_ID:' in an event that holds the marker
TraceIdCarried(e) == SubSeq(e, IndexOfTok(e, TRACE_MARKER) + 1, Len(e))

\* lines 42-48: the history before the first chunk
InitialHistory(tid, answers) ==
    IF Truthy(tid) /\ answers # PyNone
    THEN <<"# Deep Research Progress\n\n">> \o TraceLinkEvent(tid.s) \o <<"\n">>
    ELSE <<"# Deep Research Progress\n">>

\* the state of run_research before the first chunk: what it last yielded
\* (status, report, hidden) and whether it is still iterating
RunResearchStart(tid, answers) ==
    [history |-> InitialHistory(tid, answers), status |-> <<>>, report |-> <<>>,
     hidden |-> <<>>, at |-> "iterating"]

\* lines 62-73: a chunk that starts with the clarification marker
PauseOutputs(out, chunk) ==
    LET n == CountTok(chunk, TRACE_MARKER)
        k == IndexOfTok(chunk, TRACE_MARKER)
        data == IF n = 0 THEN RemoveTok(chunk, CLARIFICATION_MARKER)
                ELSE RemoveTok(SubSeq(chunk, 1, k - 1), CLARIFICATION_MARKER)
        extracted_trace_id == IF n = 0 THEN <<"None">> ELSE SubSeq(chunk, k + 1, Len(chunk))
    IN  IF n > 1
        THEN [out EXCEPT !.at = "raised"]
        ELSE [out EXCEPT !.status = out.history, !.report = <<>>,
                         !.hidden = <<CLARIFICATION_MARKER>> \o data
                                    \o <<TRACE_MARKER>> \o extracted_trace_id,
                         !.at = "returned"]

\* lines 58-84: the body of the loop for one chunk
run_research_chunk(out, chunk) ==
    IF out.at # "iterating" THEN out
    ELSE IF StartsWith(chunk, CLARIFICATION_MARKER) THEN PauseOutputs(out, chunk)
    ELSE IF StartsWith(chunk, FINAL_REPORT_MARKER)
    THEN [out EXCEPT !.status = out.history, !.report = <<"--- \n">> \o chunk,
                     !.hidden = out.history]
    ELSE LET history == IF Strip(chunk) # <<>>
                        THEN out.history \o <<"\n">> \o chunk
                        ELSE out.history
         IN  [out EXCEPT !.history = history, !.status = history, !.report = <<>>,
                         !.hidden = history]

RECURSIVE run_research_loop(_, _)
run_research_loop(out, chunks) ==
    IF chunks = <<>> THEN out
    ELSE run_research_loop(run_research_chunk(out, Head(chunks)), Tail(chunks))

\* what run_research has yielded last, having consumed the events so far
RunResearchOutputs ==
    run_research_loop(RunResearchStart(call.trace_id, call.clarification_answers), events)

-----------------------------------------------------------------------------
(* The handlers of deep_research.py.  A handler that runs the pipeline sets  *)
(* up a call of ResearchManager.run; the steps of that run are the actions   *)
(* above, and run_research is applied to the events the run has yielded.     *)

\* what query_textbox and n_searches_textbox can hold
Queries == {<<"q">>, <<" ">>, <<>>}
SearchCountTexts == {PyStr(<<"0">>)}

\* what the answers textbox can hold, as the lines of the text
AnswersTexts ==
    {<< <<>> >>,
     << <<>>, <<" ", "yes", " ">> >>,
     << <<"a">>, <<"b">>, <<"c">> >>}

\* truth value of a text given by its lines: only "" is falsy
TextTruthy(lines) == lines # << <<>> >>

\* lines 32-40 of run_research: None stays None, the JSON text of the empty
\* dict becomes 'SKIP', any other dict of strings is read back as it was written
RunResearchAnswers(answers_json) ==
    IF answers_json = PyNone THEN PyNone
    ELSE IF answers_json.items = <<>> THEN SKIP
    ELSE answers_json

\* lines 51-58 of run_research: the arguments of ResearchManager.run and the
\* fields set on the new ResearchManager
RunResearchCall(query, n, answers_json, tid, assessment) ==
    [query |-> query, n_searches |-> PyInt(n),
     clarification_answers |-> RunResearchAnswers(answers_json),
     trace_id |-> tid,
     fields |-> IF assessment.has THEN assessment ELSE NoFields]

\* dict[key] = value: a key already present keeps its place
DictSet(items, key, value) ==
    IF \E i \in 1..Len(items) : items[i][1] = key
    THEN [i \in 1..Len(items) |-> IF items[i][1] = key THEN <<key, value>> ELSE items[i]]
    ELSE Append(items, <<key, value>>)

ParsedAnswersUntrimmed(lines) == IF TextTruthy(lines) THEN lines ELSE <<>>

\* lines 182-186: the answers, one per line, stripped
ParsedAnswers(lines) ==
    IF TextTruthy(lines) THEN [i \in 1..Len(lines) |-> Strip(lines[i])] ELSE <<>>

RECURSIVE SubmitResponses(_, _, _)
\* lines 189-195: responses_dict after the first k questions
SubmitResponses(questions, answers, k) ==
    IF k = 0 THEN <<>>
    ELSE DictSet(SubmitResponses(questions, answers, k - 1),
                 questions[k].question,
                 IF k <= Len(answers) /\ answers[k] # <<>> THEN answers[k]
                 ELSE ANSWER_SKIPPED)

RECURSIVE SkipResponses(_, _)
\* lines 230-232: responses_dict after the first k questions
SkipResponses(questions, k) ==
    IF k = 0 THEN <<>>
    ELSE DictSet(SkipResponses(questions, k - 1), questions[k].question, ANSWER_SKIPPED)

\* json.loads of the text of a pause payload: the plan whose model_dump_json()
\* is that text, or a failure when the text is no such JSON any more
DecodePlan(data) ==
    IF \E plan \in ClarificationPlans \cup FreeTextPlans : ModelDumpJson(plan) = data
    THEN LET plan == CHOOSE plan \in ClarificationPlans \cup FreeTextPlans :
                         ModelDumpJson(plan) = data
         IN  [questions |-> plan.questions,
              assessment |-> [has |-> TRUE, reasoning |-> plan.assessment.reasoning,
                              complexity |-> plan.assessment.complexity]]
    ELSE [questions |-> <<>>, assessment |-> NoFields]

\* lines 118-124: the unpacking of split("|TRACE_ID:") fails on more than two parts
HandleOutputRaises(history_output) ==
    StartsWith(history_output, CLARIFICATION_MARKER) /\ CountTok(history_output, TRACE_MARKER) > 1

StoredTraceIdNone(history_output) == PyNone

\* lines 118-124: the trace id handle_research_output stores
StoredTraceId(history_output) ==
    IF CountTok(history_output, TRACE_MARKER) = 0 THEN PyNone
    ELSE PyStr(SubSeq(history_output, IndexOfTok(history_output, TRACE_MARKER) + 1,
                      Len(history_output)))

\* lines 118-124: the text handed to json.loads
ClarificationData(history_output) ==
    IF CountTok(history_output, TRACE_MARKER) = 0
    THEN RemoveTok(history_output, CLARIFICATION_MARKER)
    ELSE RemoveTok(SubSeq(history_output, 1, IndexOfTok(history_output, TRACE_MARKER) - 1),
                   CLARIFICATION_MARKER)

RECURSIVE QuestionsHtml(_, _)
QuestionsHtml(questions, k) ==
    IF k = 0 THEN <<>>
    ELSE QuestionsHtml(questions, k - 1)
         \o <<"**Question ">> \o IntStr(k) \o <<":** ">> \o questions[k].question
         \o <<"\n\n*Purpose: ">> \o questions[k].purpose \o <<"*\n\n">>

\* lines 95-112
create_clarification_interface(questions, assessment) ==
    <<"### Please answer these questions to improve your research:\n\n">>
    \o (IF assessment.has
        THEN <<"**Query Complexity:** (Level ">> \o IntStr(assessment.complexity)
             \o <<"/3)\n\n**Why we're asking:** ">> \o assessment.reasoning \o <<"\n\n---\n\n">>
        ELSE <<>>)
    \o QuestionsHtml(questions, Len(questions))

\* lines 114-167: the values handle_research_output returns, by the
\* component or State value each one is written to
handle_research_output(status_output, report_output, history_output) ==
    IF StartsWith(history_output, CLARIFICATION_MARKER)
    THEN LET plan == DecodePlan(ClarificationData(history_output))
         IN  [status |-> status_output,
              clarification_display |->
                  create_clarification_interface(plan.questions, plan.assessment),
              history |-> status_output,
              stored_questions |-> JsonText(plan.questions),
              clarification_needed |-> TRUE,
              current_trace_id |-> StoredTraceId(history_output),
              stored_assessment |-> IF plan.assessment.has THEN JsonText(plan.assessment)
                                    ELSE PyStr(<<>>)]
    ELSE [status |-> status_output,
          clarification_display |-> report_output,
          history |-> history_output,
          stored_questions |-> PyStr(<<>>),
          clarification_needed |-> FALSE,
          current_trace_id |-> PyStr(<<>>),
          stored_assessment |-> PyStr(<<>>)]

\* the State values every output of a resuming handler carries
Cleared(u) ==
    [u EXCEPT !.stored_questions = PyStr(<<>>), !.clarification_needed = FALSE,
              !.current_trace_id = PyStr(<<>>), !.stored_assessment = PyStr(<<>>)]

\* lines 179-180 and 225-226: `json.loads(x) if x else default` raises on a
\* text that is not empty and is no JSON document
LoadsRaises(x) == x.t = "str" /\ x.s # <<>>

\* lines 179 and 225
LoadedQuestions(x) == IF x.t = "json" THEN x.v ELSE <<>>

\* lines 180 and 226
LoadedAssessment(x) == IF x.t = "json" THEN x.v ELSE NoFields

\* lines 178-180 and 224-226: parsing the stored State values raises inside
\* the try block
ResumeParseRaises(u) == LoadsRaises(u.stored_questions) \/ LoadsRaises(u.stored_assessment)

ErrorMessage(h) ==
    IF h = "skip_clarification" THEN <<"Error processing skip clarification: ">>
    ELSE <<"Error processing clarification responses: ">>

\* lines 204-206 and 239-241: the output of the except block
ErrorOutputs(u, h) ==
    [Cleared(u) EXCEPT !.status = ErrorMessage(h), !.report = <<>>, !.history = <<>>]

\* the outputs a handler has not written yet: its first output, which comes
\* with the first event of the run, replaces all three
NoOutputs(u) == [u EXCEPT !.status = <<>>, !.report = <<>>, !.history = <<>>]

\* run(...) is called with the arguments of c: the locals of a new generator
NewGenerator(c) ==
    /\ call' = c
    /\ pc' = "start"
    /\ events' = <<>>
    /\ n_searches' = 0
    /\ trace_id' = c.trace_id
    /\ clarification_answers' = c.clarification_answers
    /\ clarification_plan' = NoPlan
    /\ enhanced_query' = <<>>
    /\ planner_output' = <<>>
    /\ search_plan' = <<>>
    /\ cursor' = 0
    /\ tasks' = <<>>
    /\ finished' = <<>>
    /\ collected' = <<>>
    /\ results' = <<>>
    /\ num_completed' = 0
    /\ invoked' = [assessor |-> 0, planner |-> 0, search |-> 0, writer |-> 0]
    /\ writer_input' = <<>>
    /\ report' = NoReport

\* a handler hands call c to a new ResearchManager
BeginRun(c, h) ==
    /\ NewGenerator(c)
    /\ handler' = h
    /\ self' = c.fields

runVars == <<call, pc, events, n_searches, trace_id, clarification_answers, self,
             clarification_plan, enhanced_query, planner_output, search_plan, cursor,
             searchVars, invoked, writer_input, report>>

\* the run of the current handler has stopped: run_research returned at the
\* pause event (and never resumes the generator), the generator finished, or
\* an exception left it
RunStopped == pc \in {"y_pause", "done", "failed"}

\* lines 208-217: start_research; an empty query is answered without a run
StartResearch ==
    /\ handler = "none"
    /\ minted < MaxMinted
    /\ \E query \in Queries, n_searches_input \in SearchCountTexts :
          /\ ui' = [NoOutputs(ui) EXCEPT !.query = query,
                                         !.n_searches_input = n_searches_input]
          /\ IF Strip(query) = <<>>
             THEN /\ pc' = "rejected"
                  /\ handler' = "start_research"
                  /\ UNCHANGED <<call, events, n_searches, trace_id, clarification_answers,
                                 self, clarification_plan, enhanced_query, planner_output,
                                 search_plan, cursor, searchVars, invoked, writer_input,
                                 report>>
             ELSE BeginRun(RunResearchCall(query, validate_n_searches(n_searches_input),
                                           PyNone, PyNone, NoFields),
                           "start_research")
    /\ resumed_pause' = PyNone
    /\ UNCHANGED <<validateVars, minted, last_pause, past_traces>>

\* what start_research has yielded last
StartOutputs ==
    IF pc = "rejected"
    THEN [status |-> <<"Please enter a research question.">>, report |-> <<>>,
          hidden |-> <<>>]
    ELSE RunResearchOutputs

\* lines 114-167: handle_research_output, chained to start_research
HandleResearchOutput ==
    /\ handler = "start_research"
    /\ RunStopped \/ pc = "rejected"
    /\ LET out == StartOutputs
           new == handle_research_output(out.status, out.report, out.hidden)
       IN  ui' = IF HandleOutputRaises(out.hidden)
                 THEN [ui EXCEPT !.status = out.status, !.report = out.report,
                                 !.history = out.hidden]
                 ELSE [query |-> ui.query,
                       n_searches_input |-> ui.n_searches_input,
                       status |-> new.status,
                       report |-> out.report,
                       history |-> new.history,
                       clarification_display |-> new.clarification_display,
                       answers_text |-> <<>>,
                       search_validation |-> ui.search_validation,
                       stored_questions |-> new.stored_questions,
                       clarification_needed |-> new.clarification_needed,
                       current_trace_id |-> new.current_trace_id,
                       stored_assessment |-> new.stored_assessment]
    /\ handler' = "none"
    /\ last_pause' = IF pc = "y_pause" THEN PyStr(TraceIdCarried(Last(events))) ELSE PyNone
    /\ past_traces' = IF pc = "rejected" THEN past_traces ELSE past_traces \cup {trace_id}
    /\ UNCHANGED <<runVars, validateVars, minted, resumed_pause>>

\* lines 169-206: handle_clarification_submit, up to the call of run_research
HandleClarificationSubmit ==
    /\ handler = "none"
    /\ IF ~ui.clarification_needed
       THEN /\ ui' = Cleared(ui)
            /\ UNCHANGED <<runVars, handler, last_pause, resumed_pause>>
       ELSE /\ \E answers_text \in AnswersTexts :
                  LET typed == [ui EXCEPT !.answers_text = answers_text]
                      questions == LoadedQuestions(ui.stored_questions)
                  IN  IF ResumeParseRaises(ui)
                      THEN /\ ui' = ErrorOutputs(typed, "handle_clarification_submit")
                           /\ UNCHANGED <<runVars, handler>>
                      ELSE /\ BeginRun(RunResearchCall(
                                           ui.query, validate_n_searches(ui.n_searches_input),
                                           PyDict(SubmitResponses(questions,
                                                                  ParsedAnswers(answers_text),
                                                                  Len(questions))),
                                           ui.current_trace_id,
                                           LoadedAssessment(ui.stored_assessment)),
                                       "handle_clarification_submit")
                           /\ ui' = NoOutputs(Cleared(typed))
            /\ resumed_pause' = last_pause
            /\ last_pause' = PyNone
    /\ UNCHANGED <<validateVars, minted, past_traces>>

\* lines 219-241: skip_clarification, up to the call of run_research; its
\* button is in the clarification section, which handle_research_output shows
\* together with setting clarification_needed and every later output hides
SkipClarification ==
    /\ handler = "none"
    /\ ui.clarification_needed
    /\ LET questions == LoadedQuestions(ui.stored_questions)
       IN  IF ResumeParseRaises(ui)
           THEN /\ ui' = ErrorOutputs(ui, "skip_clarification")
                /\ UNCHANGED <<runVars, handler>>
           ELSE /\ BeginRun(RunResearchCall(
                                ui.query, validate_n_searches(ui.n_searches_input),
                                PyDict(SkipResponses(questions, Len(questions))),
                                ui.current_trace_id,
                                LoadedAssessment(ui.stored_assessment)),
                            "skip_clarification")
                /\ ui' = NoOutputs(Cleared(ui))
    /\ resumed_pause' = last_pause
    /\ last_pause' = PyNone
    /\ UNCHANGED <<validateVars, minted, past_traces>>

\* lines 198-206 and 235-241: the last output of a resuming handler; an
\* exception of the run is turned into an error message
ResumeEnds ==
    /\ handler \in {"handle_clarification_submit", "skip_clarification"}
    /\ RunStopped
    /\ ui' = IF pc = "failed"
             THEN ErrorOutputs(ui, handler)
             ELSE [Cleared(ui) EXCEPT !.status = RunResearchOutputs.status,
                                      !.report = RunResearchOutputs.report,
                                      !.history = RunResearchOutputs.hidden]
    /\ handler' = "none"
    /\ past_traces' = past_traces \cup {trace_id}
    /\ UNCHANGED <<runVars, validateVars, minted, last_pause, resumed_pause>>

InitUI ==
    /\ call = [query |-> <<>>, n_searches |-> PyNone, clarification_answers |-> PyNone,
               trace_id |-> PyNone, fields |-> NoFields]
    /\ self = NoFields
    /\ pc = "none"
    /\ events = <<>>
    /\ n_searches = 0
    /\ trace_id = PyNone
    /\ clarification_answers = PyNone
    /\ clarification_plan = NoPlan
    /\ enhanced_query = <<>>
    /\ planner_output = <<>>
    /\ search_plan = <<>>
    /\ cursor = 0
    /\ tasks = <<>>
    /\ finished = <<>>
    /\ collected = <<>>
    /\ results = <<>>
    /\ num_completed = 0
    /\ invoked = [assessor |-> 0, planner |-> 0, search |-> 0, writer |-> 0]
    /\ writer_input = <<>>
    /\ report = NoReport
    /\ vin = PyNone
    /\ vout = 0
    /\ ui = NoUi
    /\ handler = "none"
    /\ minted = 0
    /\ last_pause = PyNone
    /\ resumed_pause = PyNone
    /\ past_traces = {}
    /\ llm_debate = NoDebate

\* the handlers and the steps of the run they start; run_research never
\* resumes the generator after the pause event
NextUI ==
    \/ StartResearch
    \/ HandleResearchOutput
    \/ HandleClarificationSubmit
    \/ SkipClarification
    \/ ResumeEnds
    \/ Start
    \/ AnalyzingStep
    \/ InvokeAssessor
    \/ AssessorReturns
    \/ AssessorRaises
    \/ HeaderStep
    \/ WhyStep
    \/ ComplexityStep
    \/ WhyBlankStep
    \/ QuestionStep
    \/ AnswerStep
    \/ PairBlankStep
    \/ AllSkippedStep
    \/ AnswersEndStep
    \/ InvokePlanner
    \/ PlannerReturns
    \/ PlannerRaises
    \/ WillPerformStep
    \/ ItemQueryStep
    \/ ItemReasonStep
    \/ LaunchSearches
    \/ TaskFinishes
    \/ CollectStep
    \/ CompletedStep
    \/ FinishedSearchingStep
    \/ InvokeWriter
    \/ WriterReturns
    \/ WriterRaises
    \/ FinishedWritingStep
    \/ ReportStep

SpecUI == InitUI /\ [][NextUI]_vars

-----------------------------------------------------------------------------
(* Properties *)

Marked(e) == StartsWith(e, CLARIFICATION_MARKER)

MarkedEvents == {i \in 1..Len(events) : Marked(events[i])}

\* sub occurs in s as a run of consecutive tokens
Contains(s, sub) ==
    \E k \in 0..(Len(s) - Len(sub)) : SubSeq(s, k + 1, k + Len(sub)) = sub

GeneratingEvent == <<"## Generating search plan...">>

FirstCall == call.clarification_answers = PyNone
ResumeCall == call.clarification_answers # PyNone

\* the assessor has returned a plan that asks for clarification
AskedToClarify == FirstCall /\ clarification_plan.should_ask_questions

\* the assessor has returned a plan that does not ask
ToldToProceed ==
    /\ FirstCall
    /\ clarification_plan # NoPlan
    /\ ~clarification_plan.should_ask_questions

\* the assessor call has ended without a plan
AssessorFailed ==
    /\ FirstCall
    /\ invoked.assessor = 1
    /\ pc # "await_assessor"
    /\ clarification_plan = NoPlan

\* C1: on a first call, once the assessor has returned a plan with
\* should_ask_questions = true, the stream holds exactly one event that begins
\* with CLARIFICATION_NEEDED:, that event is the last one, the generator is
\* suspended at it or has returned, and the planner, the searches and the
\* writer were never invoked (so there is no report).
C1_PauseEndsStream ==
    AskedToClarify =>
        /\ pc \in {"y_pause", "done"}
        /\ Cardinality(MarkedEvents) = 1
        /\ Marked(events[Len(events)])
        /\ invoked.planner = 0 /\ invoked.search = 0 /\ invoked.writer = 0
        /\ report = NoReport

C1_Witness == AskedToClarify /\ pc = "done" /\ Len(clarification_plan.questions) = 2

-----------------------------------------------------------------------------
(* Properties of the SEARCH stage *)

IsPrefix(s, t) == Len(s) <= Len(t) /\ s = SubSeq(t, 1, Len(s))

IsCompletedEvent(e) == StartsWith(e, "Searching... ")

CompletedEvents == SelectSeq(events, IsCompletedEvent)

FinishedSearchingEvent == <<"Finished searching \n">>

Succeeded(i) == tasks[i].done /\ tasks[i].result # PyNone

\* K: the searches that have ended with a summary
Successes == {i \in 1..Len(tasks) : Succeeded(i)}

\* the summaries of the successful searches, in the order their tasks were awaited
SuccessfulSummaries ==
    LET ok == SelectSeq(collected, Succeeded)
    IN  [j \in 1..Len(ok) |-> tasks[ok[j]].result]

SearchOver ==
    pc \in {"y_finished_searching", "y_thinking", "await_writer", "y_finished_writing",
            "y_report", "done"}

\* C5: the "Searching... k/N completed" events of the stream are those for
\* k = 1, 2, ..., num_completed in that order, with N the number of planned
\* searches; when the loop is over there are N of them; and the writer input
\* holds the summaries of exactly the K successful searches, each once.
C5_FanOutComplete ==
    /\ CompletedEvents = [k \in 1..num_completed |-> CompletedEvent(k, Len(search_plan))]
    /\ SearchOver => num_completed = Len(search_plan)
    /\ invoked.writer = 1 =>
          /\ Len(collected) = Len(tasks)
          /\ {collected[k] : k \in 1..Len(collected)} = 1..Len(tasks)
          /\ writer_input = WriterInput(call.query, SuccessfulSummaries)
          /\ CountTok(writer_input, "'") = 2 * Cardinality(Successes)
          /\ CountTok(writer_input, "None") = 0

C5_Witness ==
    /\ invoked.writer = 1
    /\ Len(tasks) = 5
    /\ Cardinality(Successes) = 3
    /\ collected[1] = 5
    /\ Len(CompletedEvents) = 5

\* C6: all N tasks exist before the loop awaits anything; results are
\* collected in completion order, whatever the submission order; and whenever
\* the loop is waiting and some finished task has not been collected, the
\* next completion step can be taken at once, even while an earlier-submitted
\* task is still running.
C6_CompletionOrder ==
    /\ pc \in {"await_task", "y_completed"} =>
          /\ Len(tasks) = Len(search_plan)
          /\ invoked.search = Len(search_plan)
    /\ IsPrefix(collected, finished)
    /\ num_completed = Len(collected)
    /\ (pc = "await_task" /\ Len(collected) < Len(finished)) => ENABLED CollectStep

C6_Witness ==
    /\ Len(tasks) = 5
    /\ collected = <<5, 4, 3, 2>>
    /\ ~tasks[1].done
    /\ pc = "y_completed"
    /\ Len(CompletedEvents) = 4

SearchingIndex == CHOOSE i \in 1..Len(events) : events[i] = <<"## Searching...">>

\* what follows "## Searching..." on a stream that runs to its end
AfterSearching ==
    [k \in 1..Len(search_plan) |-> CompletedEvent(k, Len(search_plan))]
    \o <<FinishedSearchingEvent, <<"## Thinking about report...">>,
         <<"Finished writing report">>, report.markdown_report>>

\* C7: the stream never fails in the SEARCH stage (it fails only in the
\* planner or the writer call); what follows "## Searching..." is the N
\* completion events, then one "Finished searching", then
\* "## Thinking about report...", and nothing else, so no event names a
\* failed search; "Finished searching" is there only once every task has
\* finished; and when every search failed the writer is still invoked, with
\* an empty result list.
C7_SearchFailureAbsorbed ==
    /\ pc = "failed" => (invoked.search = 0 \/ invoked.writer = 1)
    /\ (\E i \in 1..Len(events) : events[i] = <<"## Searching...">>) =>
          IsPrefix(SubSeq(events, SearchingIndex + 1, Len(events)), AfterSearching)
    /\ Cardinality({i \in 1..Len(events) : events[i] = FinishedSearchingEvent})
          = IF SearchOver \/ invoked.writer = 1 THEN 1 ELSE 0
    /\ SearchOver => \A i \in 1..Len(tasks) : tasks[i].done
    /\ (pc = "y_thinking" /\ Successes = {}) => ENABLED InvokeWriter
    /\ (invoked.writer = 1 /\ Successes = {}) =>
          writer_input = WriterInput(call.query, <<>>)

C7_Witness ==
    /\ Len(tasks) = 5
    /\ Successes = {}
    /\ invoked.writer = 1
    /\ pc = "done"

-----------------------------------------------------------------------------
(* Properties of the search plan *)

Min(a, b) == IF a <= b THEN a ELSE b

\* the planner has returned and the plan has been post-processed
Planned == \E i \in 1..Len(events) : StartsWith(events[i], "Will perform **")

\* C8: the plan used after post-processing has between 1 and 5 searches.
C8_PlanSizeInvariant ==
    Planned => MIN_SEARCHES <= Len(search_plan) /\ Len(search_plan) <= MAX_SEARCHES

\* C9 as stated: the plan used is the planner's list cut to the hard cap
\* MAX_SEARCHES only, so a list of at most 5 items is kept whatever n is.
C9_CutOnlyAtHardCap ==
    Planned =>
        search_plan = SubSeq(planner_output, 1, Min(Len(planner_output), MAX_SEARCHES))

\* C9 amended: the plan used is the planner's list cut to the validated
\* requested count n (itself at most MAX_SEARCHES): a prefix in the planner's
\* order, never padded, unchanged when the list has at most n items.
C9_CutAtRequestedCount ==
    Planned =>
        /\ n_searches <= MAX_SEARCHES
        /\ search_plan = SubSeq(planner_output, 1, Min(Len(planner_output), n_searches))
        /\ IsPrefix(search_plan, planner_output)
        /\ Len(planner_output) <= n_searches => search_plan = planner_output

C9_Witness ==
    /\ Planned
    /\ n_searches = 3
    /\ Len(planner_output) = 4
    /\ Len(search_plan) = 3
    /\ pc = "y_searching"

-----------------------------------------------------------------------------
(* Properties of validate_n_searches *)

\* C10: the result is an integer in [1,5], and an input that does not parse
\* as an integer yields 3.
C10_ValidateRange ==
    pc = "returned" =>
        /\ vout \in MIN_SEARCHES..MAX_SEARCHES
        /\ ~PyIntOf(vin).ok => vout = DEFAULT_SEARCHES

C10_Witness ==
    /\ pc = "returned"
    /\ vin = PyStr(<<"3", "x">>)
    /\ vout = 3

\* C11: an input that parses as an integer v yields 1 when v < 1 (the number 0,
\* the string '0' and negatives included), 5 when v > 5 and v otherwise; only
\* an empty or unparseable input yields the default 3.
C11_ClampRule ==
    pc = "returned" =>
        LET p == PyIntOf(vin)
        IN  IF p.ok
            THEN vout = (IF p.v < 1 THEN 1 ELSE IF p.v > 5 THEN 5 ELSE p.v)
            ELSE vout = 3

\* C12: validate_n_searches never raises, and validating its own result gives
\* that result again.
C12_TotalAndIdempotent ==
    /\ pc # "raised"
    /\ pc = "returned" => validate_n_searches(PyInt(vout)) = vout

-----------------------------------------------------------------------------
(* Failures of the planner and of the writer *)

ThinkingEvent == <<"## Thinking about report...">>

FinishedWritingEvent == <<"Finished writing report">>

\* the stream has failed: what it had emitted and launched by then
C13_FailedState ==
    pc = "failed" =>
        /\ events # <<>>
        /\ invoked.writer = 0 =>
              /\ invoked.planner = 1
              /\ Last(events) = GeneratingEvent
              /\ invoked.search = 0
              /\ tasks = <<>>
        /\ invoked.writer = 1 => Last(events) = ThinkingEvent
        /\ \A i \in 1..Len(events) :
              events[i] # FinishedWritingEvent /\ events[i] \notin ReportBodies

\* a step of the planner or writer call that does not deliver the result
\* fails the stream without touching the events, and a failed stream takes
\* no further step
C13_FailureStep ==
    /\ pc = "await_planner" /\ pc' # "y_will_perform" =>
          pc' = "failed" /\ events' = events /\ UNCHANGED searchVars
    /\ pc = "await_writer" /\ pc' # "y_finished_writing" =>
          pc' = "failed" /\ events' = events
    /\ pc # "failed"

\* C13: a failure of the planner or of the writer is not caught: the stream
\* fails right after '## Generating search plan...' with no search launched,
\* or right after '## Thinking about report...' with no 'Finished writing
\* report'; no final report is emitted and the earlier events are unchanged.
C13_PlannerWriterFailureFatal == []C13_FailedState /\ [][C13_FailureStep]_vars

C13_Witness ==
    /\ pc = "failed"
    /\ invoked.writer = 1
    /\ invoked.search = 1
    /\ Last(events) = ThinkingEvent

-----------------------------------------------------------------------------
(* The final report *)

\* the stream has ended after the writer's report was emitted
StreamSucceeded == pc = "done" /\ invoked.writer = 1

\* C14: on a successful stream the report is the last event, emitted once,
\* and begins with the marker run_research tests for, so it reaches the
\* report output and is never appended to the history.
C14_FinalReportRouted ==
    StreamSucceeded =>
        /\ Last(events) = report.markdown_report
        /\ Cardinality({i \in 1..Len(events) : events[i] = report.markdown_report}) = 1
        /\ StartsWith(Last(events), FINAL_REPORT_MARKER)
        /\ RunResearchOutputs.report = <<"--- \n">> \o report.markdown_report
        /\ ~Contains(RunResearchOutputs.history, report.markdown_report)

-----------------------------------------------------------------------------
(* The clarification marker *)

\* event i is the pause event of line 80
IsPauseEvent(i) ==
    /\ AskedToClarify
    /\ pc \in {"y_pause", "done"}
    /\ i = Len(events)
    /\ events[i] = ClarificationNeededEvent(clarification_plan, trace_id.s)

\* C15: an event begins with 'CLARIFICATION_NEEDED:' exactly when it is the
\* pause event, whatever the collaborators return, so run_research reports a
\* paused session exactly when the assessor asked for clarification.
C15_MarkerSolePauseSignal ==
    /\ \A i \in 1..Len(events) : Marked(events[i]) <=> IsPauseEvent(i)
    /\ RunResearchOutputs.at = "returned" <=> \E i \in 1..Len(events) : IsPauseEvent(i)

-----------------------------------------------------------------------------
(* The trace id *)

TRACE_LINK_PREFIX == "[View trace](https://platform.openai.com/traces/trace?trace_id="

\* C16: run uses a supplied trace id unchanged and mints one only when none
\* is supplied; a first call starts with the trace-link event of that id and
\* its pause event carries the same id after '|TRACE_ID:'; a resume call
\* emits no trace-link event.
C16_TraceHandling ==
    pc # "start" =>
        /\ call.trace_id # PyNone => trace_id = call.trace_id
        /\ call.trace_id = PyNone => trace_id = PyStr(gen_trace_id(1))
        /\ FirstCall => events[1] = TraceLinkEvent(trace_id.s)
        /\ \A i \in 1..Len(events) :
              Marked(events[i]) =>
                  /\ CountTok(events[i], TRACE_MARKER) = 1
                  /\ TraceIdCarried(events[i]) = trace_id.s
        /\ ResumeCall =>
              \A i \in 1..Len(events) : ~StartsWith(events[i], TRACE_LINK_PREFIX)

C16_Witness ==
    /\ FirstCall
    /\ call.trace_id = PyStr(<<"trace_given">>)
    /\ pc = "y_pause"
    /\ events[1] = TraceLinkEvent(<<"trace_given">>)
    /\ TraceIdCarried(Last(events)) = <<"trace_given">>

-----------------------------------------------------------------------------
(* The echo of the answers and the planner input *)

\* the call resumes with a mapping of questions to answers
MappingCall == call.clarification_answers \notin {PyNone, SKIP}

\* the pairs of the mapping the call was made with, in insertion order
CallItems == call.clarification_answers.items

Blank(answer) == \A k \in 1..Len(answer) : answer[k] = " "

\* the answer event the claim prescribes for an answer
ShownAnswer(answer) ==
    IF answer = <<"Answer skipped">> THEN <<"**Answer:** *[Skipped]* \t">>
    ELSE IF Blank(answer) THEN <<"**Answer:** *[Left blank]* \t">>
    ELSE <<"**Answer:** ">> \o answer \o <<" \t">>

RECURSIVE EchoUpTo(_, _)
\* question event, answer event and spacing event of pairs 1..k
EchoUpTo(items, k) ==
    IF k = 0 THEN <<>>
    ELSE EchoUpTo(items, k - 1)
         \o << <<"**Question ">> \o IntStr(k) \o <<":** ">> \o items[k][1] \o <<" \t">>,
               ShownAnswer(items[k][2]),
               <<>> >>

\* the events of a resume call with a mapping, up to the start of planning
ResumeEvents ==
    << <<"## Clarification Questions & Answers">> >>
    \o (IF call.fields.has
        THEN <<WhyEvent(call.fields.reasoning), ComplexityEvent(call.fields.complexity), <<>> >>
        ELSE <<>>)
    \o EchoUpTo(CallItems, Len(CallItems))
    \o << <<>>, GeneratingEvent >>

\* C18: a resume call with a mapping echoes every pair in insertion order,
\* numbered 1..m: a question event, then one answer event that shows
\* '[Skipped]' for 'Answer skipped', '[Left blank]' for an empty or
\* whitespace-only answer and the answer itself otherwise; all of it
\* precedes '## Generating search plan...'.
C18_ResumeEcho ==
    MappingCall /\ pc # "start" =>
        IF Len(events) <= Len(ResumeEvents)
        THEN IsPrefix(events, ResumeEvents)
        ELSE IsPrefix(ResumeEvents, events)

C18_Witness ==
    /\ MappingCall
    /\ Len(CallItems) = 2
    /\ CallItems[1][2] = <<" ">>
    /\ CallItems[2][2] = ANSWER_SKIPPED
    /\ pc = "y_generating"
    /\ events[Len(events) - 3] = <<"**Answer:** *[Skipped]* \t">>
    /\ events[Len(events) - 6] = <<"**Answer:** *[Left blank]* \t">>

RECURSIVE PairsUpTo(_, _)
\* the text of pairs 1..k in the planner input
PairsUpTo(items, k) ==
    IF k = 0 THEN <<>>
    ELSE PairsUpTo(items, k - 1)
         \o <<"Q: ">> \o items[k][1] \o <<"\nA: ">> \o items[k][2] \o <<"\n\n">>

\* the call brings no clarification context: first call, 'SKIP' or empty mapping
NoContext == ~MappingCall \/ CallItems = <<>>

\* C19: the planner input is the original query alone when there is no
\* clarification context, and otherwise the original query followed by
\* every pair of the mapping, once each, in insertion order, skipped and
\* blank answers verbatim.
C19_PlannerInput ==
    invoked.planner = 1 =>
        IF NoContext
        THEN enhanced_query = <<"Query: ">> \o call.query
        ELSE /\ enhanced_query = <<"Original Query: ">> \o call.query
                                   \o <<"\n\nAdditional Context from User:\n">>
                                   \o PairsUpTo(CallItems, Len(CallItems))
             /\ CountTok(enhanced_query, "Q: ") = Len(CallItems)

C19_Witness ==
    /\ invoked.planner = 1
    /\ MappingCall
    /\ Len(CallItems) = 2
    /\ CallItems[1][2] = ANSWER_SKIPPED
    /\ CallItems[2][2] = <<>>
    /\ Contains(enhanced_query, <<"Q: ", "Q", "1", "\nA: ", "Answer skipped", "\n\n",
                                  "Q: ", "Q", "2", "\nA: ", "\n\n">>)

AllSkippedEvent == <<"*All clarification questions were skipped*">>

IsQuestionEvent(e) == StartsWith(e, "**Question ")

IsAnswerEvent(e) == StartsWith(e, "**Answer:** ") \/ StartsWith(e, "**Answer:** *[Skipped]* \t")
                    \/ StartsWith(e, "**Answer:** *[Left blank]* \t")

\* every answer of the mapping is 'Answer skipped', and there is at least one
AllSkippedMapping ==
    /\ MappingCall
    /\ CallItems # <<>>
    /\ \A i \in 1..Len(CallItems) : CallItems[i][2] = ANSWER_SKIPPED

\* C20: 'SKIP' and a mapping whose answers are all skipped take different
\* branches: 'SKIP' gives the all-skipped event, no question or answer
\* event and the original query alone for the planner; the mapping gives one
\* '[Skipped]' echo per question and a planner input that holds every pair.
C20_SkipSentinelVsSkippedMapping ==
    invoked.planner = 1 =>
        /\ call.clarification_answers = SKIP =>
              /\ Cardinality({i \in 1..Len(events) : events[i] = AllSkippedEvent}) = 1
              /\ \A i \in 1..Len(events) :
                    ~IsQuestionEvent(events[i]) /\ ~IsAnswerEvent(events[i])
              /\ enhanced_query = <<"Query: ">> \o call.query
        /\ AllSkippedMapping =>
              /\ \A i \in 1..Len(events) : events[i] # AllSkippedEvent
              /\ SelectSeq(events, IsAnswerEvent)
                    = [i \in 1..Len(CallItems) |-> <<"**Answer:** *[Skipped]* \t">>]
              /\ Len(SelectSeq(events, IsQuestionEvent)) = Len(CallItems)
              /\ enhanced_query # <<"Query: ">> \o call.query
              /\ \A i \in 1..Len(CallItems) :
                    Contains(enhanced_query,
                             <<"Q: ">> \o CallItems[i][1] \o <<"\nA: ", "Answer skipped", "\n\n">>)

C20_Witness ==
    /\ invoked.planner = 1
    /\ AllSkippedMapping
    /\ Len(CallItems) = 2
    /\ pc = "await_planner"
    /\ Len(SelectSeq(events, IsAnswerEvent)) = 2

-----------------------------------------------------------------------------
(* The trace id across the handlers *)

ResumingHandlers == {"handle_clarification_submit", "skip_clarification"}

\* C17: the run started by handle_clarification_submit or skip_clarification
\* after a pause is given, and uses, the trace id the pause event carried, and
\* a run started by a later start_research uses an id no earlier run used.
C17_TraceAcrossPause ==
    /\ handler \in ResumingHandlers /\ resumed_pause # PyNone =>
          /\ call.trace_id = resumed_pause
          /\ pc # "start" => trace_id = resumed_pause
    /\ handler = "start_research" /\ pc \notin {"start", "rejected"} =>
          trace_id \notin past_traces

C17_Witness ==
    /\ handler = "handle_clarification_submit"
    /\ resumed_pause = PyStr(gen_trace_id(2))
    /\ trace_id = resumed_pause
    /\ past_traces = {PyStr(gen_trace_id(1)), PyStr(gen_trace_id(2))}
    /\ pc = "y_report"

-----------------------------------------------------------------------------
(* The pause event from the assessor's plan to the stored State values:      *)
(* start_research has called run, the assessor is about to return a plan     *)
(* with free texts, and handle_research_output decodes what run_research     *)
(* passes on.                                                                *)

InitRoundTrip ==
    /\ call = RunResearchCall(<<"q">>, 1, PyNone, PyNone, NoFields)
    /\ self = NoFields
    /\ pc = "await_assessor"
    /\ events = <<TraceLinkEvent(gen_trace_id(1)), <<"## Analyzing query complexity...">> >>
    /\ n_searches = 1
    /\ trace_id = PyStr(gen_trace_id(1))
    /\ clarification_answers = PyNone
    /\ clarification_plan = NoPlan
    /\ enhanced_query = <<>>
    /\ planner_output = <<>>
    /\ search_plan = <<>>
    /\ cursor = 0
    /\ tasks = <<>>
    /\ finished = <<>>
    /\ collected = <<>>
    /\ results = <<>>
    /\ num_completed = 0
    /\ invoked = [assessor |-> 1, planner |-> 0, search |-> 0, writer |-> 0]
    /\ writer_input = <<>>
    /\ report = NoReport
    /\ vin = PyNone
    /\ vout = 0
    /\ ui = [NoUi EXCEPT !.query = <<"q">>, !.n_searches_input = PyStr(<<"0">>)]
    /\ handler = "start_research"
    /\ minted = 1
    /\ last_pause = PyNone
    /\ resumed_pause = PyNone
    /\ past_traces = {}
    /\ llm_debate = NoDebate

NextRoundTrip ==
    \/ AssessorReturnsFreeText
    \/ HandleResearchOutput

SpecRoundTrip == InitRoundTrip /\ [][NextRoundTrip]_vars

\* C21: once handle_research_output has handled the pause event of a plan, the
\* stored questions are the plan's question list, the stored assessment is the
\* plan's complexity and reasoning, the stored trace id is the trace id of the
\* run, and neither decoding step has raised.
C21_PauseEventRoundTrips ==
    (handler = "none" /\ pc = "y_pause")
        => /\ RunResearchOutputs.at = "returned"
           /\ ~HandleOutputRaises(RunResearchOutputs.hidden)
           /\ ui.clarification_needed
           /\ ui.stored_questions = JsonText(clarification_plan.questions)
           /\ ui.stored_assessment =
                  JsonText([has |-> TRUE,
                            reasoning |-> clarification_plan.assessment.reasoning,
                            complexity |-> clarification_plan.assessment.complexity])
           /\ ui.current_trace_id = trace_id

-----------------------------------------------------------------------------
(* The ends of a stream *)

\* the calls of Spec, where every collaborator call that is pending returns
\* or raises and the consumer pulls the next event: a step is taken as long
\* as one is possible
SpecLive == Init /\ [][Next]_vars /\ WF_vars(Next)

StreamEnded == pc \in {"done", "failed"}

EndsWithPause == pc = "done" /\ events # <<>> /\ IsPauseEvent(Len(events))

EndsWithReport ==
    /\ pc = "done"
    /\ invoked.writer = 1
    /\ report # NoReport
    /\ Last(events) = report.markdown_report

\* the planner call or the writer call was pending when the stream failed
EndsWithFailure ==
    /\ pc = "failed"
    /\ \/ invoked.planner = 1 /\ planner_output = <<>> /\ tasks = <<>> /\ invoked.writer = 0
       \/ invoked.writer = 1 /\ report = NoReport

BoolCount(b) == IF b THEN 1 ELSE 0

-----------------------------------------------------------------------------
(* The resuming handlers on their own: handle_clarification_submit and       *)
(* skip_clarification are given State values, well formed or not, and the    *)
(* run they start is followed to its end.                                    *)

\* question lists a stored_questions text can encode: the lists of the
\* assessor's plans, and one in which two questions have the same text
StoredQuestionLists ==
    {FollowUpQuestions(k) : k \in 0..MaxQuestions}
    \cup {<<[question |-> QuestionText(1), purpose |-> PurposeText(1)],
            [question |-> QuestionText(1), purpose |-> PurposeText(2)]>>}

\* lines 169 and 219: the State values the handlers are given
StoredQuestionsTexts == {PyStr(<<>>), MalformedJson} \cup {JsonText(q) : q \in StoredQuestionLists}

StoredAssessmentTexts == {PyStr(<<>>), MalformedJson, JsonText(StoredFields)}

\* no run has been started
RunAtRest ==
    /\ call = [query |-> <<>>, n_searches |-> PyNone, clarification_answers |-> PyNone,
               trace_id |-> PyNone, fields |-> NoFields]
    /\ self = NoFields
    /\ pc = "none"
    /\ events = <<>>
    /\ n_searches = 0
    /\ trace_id = PyNone
    /\ clarification_answers = PyNone
    /\ clarification_plan = NoPlan
    /\ enhanced_query = <<>>
    /\ planner_output = <<>>
    /\ search_plan = <<>>
    /\ cursor = 0
    /\ tasks = <<>>
    /\ finished = <<>>
    /\ collected = <<>>
    /\ results = <<>>
    /\ num_completed = 0
    /\ invoked = [assessor |-> 0, planner |-> 0, search |-> 0, writer |-> 0]
    /\ writer_input = <<>>
    /\ report = NoReport
    /\ vin = PyNone
    /\ vout = 0

InitResume ==
    /\ RunAtRest
    /\ \E q \in StoredQuestionsTexts, a \in StoredAssessmentTexts :
          ui = [NoUi EXCEPT !.query = <<"q">>, !.n_searches_input = PyStr(<<"0">>),
                            !.stored_questions = q, !.clarification_needed = TRUE,
                            !.current_trace_id = PyStr(<<"trace_given">>),
                            !.stored_assessment = a]
    /\ handler = "none"
    /\ minted = 0
    /\ last_pause = PyStr(<<"trace_given">>)
    /\ resumed_pause = PyNone
    /\ past_traces = {PyStr(<<"trace_given">>)}
    /\ llm_debate = NoDebate

NextResume ==
    \/ HandleClarificationSubmit
    \/ SkipClarification
    \/ ResumeEnds
    \/ Start
    \/ HeaderStep
    \/ WhyStep
    \/ ComplexityStep
    \/ WhyBlankStep
    \/ QuestionStep
    \/ AnswerStep
    \/ PairBlankStep
    \/ AllSkippedStep
    \/ AnswersEndStep
    \/ InvokePlanner
    \/ PlannerReturns
    \/ PlannerRaises
    \/ WillPerformStep
    \/ ItemQueryStep
    \/ ItemReasonStep
    \/ LaunchSearches
    \/ TaskFinishes
    \/ CollectStep
    \/ CompletedStep
    \/ FinishedSearchingStep
    \/ InvokeWriter
    \/ WriterReturns
    \/ WriterRaises
    \/ FinishedWritingStep
    \/ ReportStep

SpecResume == InitResume /\ [][NextResume]_vars

IsErrorMessage(text) ==
    text \in {ErrorMessage("skip_clarification"), ErrorMessage("handle_clarification_submit")}

\* a resuming handler acts on State values one of which does not parse
C23_MalformedResume ==
    /\ handler = "none"
    /\ ui.clarification_needed
    /\ ResumeParseRaises(ui)
    /\ ui' # ui

\* C23: a resuming handler that is given stored questions or a stored
\* assessment that cannot be parsed starts the run all the same (with the
\* defaults in place of what did not parse) and shows no error message.
C23_MalformedPayloadFallsBack ==
    [][C23_MalformedResume =>
          /\ handler' \in ResumingHandlers
          /\ pc' = "start"
          /\ ~IsErrorMessage(ui'.status)]_vars

-----------------------------------------------------------------------------
(* Fatal failures in the handlers *)

\* C24: when the run of start_research, handle_clarification_submit or
\* skip_clarification has failed (the planner or the writer raised), the
\* handler's last output is an error message, no report is shown, and the
\* progress emitted before the failure is still in the status or the history.
C24_FailureShownProgressKept ==
    (handler = "none" /\ pc = "failed") =>
        /\ IsErrorMessage(ui.status)
        /\ ui.report = <<>>
        /\ Contains(ui.status, GeneratingEvent) \/ Contains(ui.history, GeneratingEvent)

-----------------------------------------------------------------------------
(* The answers mapping of handle_clarification_submit *)

\* handle_clarification_submit hands a mapping to a new run
SubmitStep == handler = "none" /\ handler' = "handle_clarification_submit"

\* the value for the question in place i, given the lines of the answer text
LineAnswer(lines, i) ==
    IF i <= Len(lines) /\ Strip(lines[i]) # <<>> THEN Strip(lines[i]) ELSE ANSWER_SKIPPED

\* the mapping with one entry per question, in the order of the questions
OnePerQuestion(questions, lines) ==
    [i \in 1..Len(questions) |-> <<questions[i].question, LineAnswer(lines, i)>>]

\* the places of the questions whose text no earlier question has
FirstPlaces(questions) ==
    {i \in 1..Len(questions) : \A j \in 1..(i - 1) : questions[j].question # questions[i].question}

\* the last place of a question with the text of the question in place i
LastPlace(questions, i) ==
    CHOOSE j \in i..Len(questions) :
        /\ questions[j].question = questions[i].question
        /\ \A k \in (j + 1)..Len(questions) : questions[k].question # questions[i].question

\* the elements of a set of numbers in increasing order
Ascending(S) ==
    CHOOSE f \in [1..Cardinality(S) -> S] :
        \A a, b \in 1..Cardinality(S) : a < b => f[a] < f[b]

\* one entry per distinct question text, in the order of first occurrence,
\* with the value of the last question of that text
OnePerText(questions, lines) ==
    LET places == Ascending(FirstPlaces(questions))
    IN  [n \in 1..Len(places) |->
            <<questions[places[n]].question,
              LineAnswer(lines, LastPlace(questions, places[n]))>>]

\* the mapping as ResearchManager.run receives it
AsReceived(items) == IF items = <<>> THEN SKIP ELSE PyDict(items)

Distinct(questions) == Cardinality(FirstPlaces(questions)) = Len(questions)

\* C25 as stated: for every stored question list the mapping handed to the
\* resuming run has exactly one entry per stored question, in stored order,
\* keyed by the question text, whose value is the trimmed line of the same
\* place when that line is not empty and 'Answer skipped' otherwise.
C25_OneEntryPerQuestion ==
    [][SubmitStep =>
          call'.clarification_answers =
              AsReceived(OnePerQuestion(LoadedQuestions(ui.stored_questions),
                                        ui'.answers_text))]_vars

\* C25 (amended): the mapping has one entry per distinct question text, in the
\* order of first occurrence; for a list of pairwise distinct texts this is
\* one entry per question with the value of its own line, and questions of
\* the same text share one entry, which holds the value of the last of them.
C25_OneEntryPerQuestionText ==
    [][SubmitStep =>
          LET questions == LoadedQuestions(ui.stored_questions)
          IN  /\ call'.clarification_answers =
                     AsReceived(OnePerText(questions, ui'.answers_text))
              /\ Distinct(questions) =>
                     call'.clarification_answers =
                         AsReceived(OnePerQuestion(questions, ui'.answers_text))]_vars

C25_Witness ==
    /\ handler = "handle_clarification_submit"
    /\ pc = "start"
    /\ call.clarification_answers =
           PyDict(<< <<QuestionText(1), ANSWER_SKIPPED>>, <<QuestionText(2), <<"yes">> >> >>)

-----------------------------------------------------------------------------
(* One ResearchManager used for several calls of run(): the attributes set   *)
(* on the instance in lines 72-73 stay on it from one call to the next.      *)
(* last_pause is the trace id of the session whose pause set them.           *)

MappingOfOne == PyDict(<< <<QuestionText(1), <<"yes">> >> >>)

\* the calls made on the instance: first calls without a trace id, and resume
\* calls of the session that brought its trace id or of a session whose trace
\* id this instance has minted
SharedInstanceCalls ==
    [query : {<<"q">>}, n_searches : {PyInt(1)},
     clarification_answers : {PyNone, SKIP, MappingOfOne},
     trace_id : {PyNone, PyStr(<<"trace_given">>), PyStr(gen_trace_id(1))},
     fields : {NoFields}]

\* a call that can be made when k trace ids have been minted
CanBeCalled(c, k) ==
    /\ c.clarification_answers = PyNone <=> c.trace_id = PyNone
    /\ c.trace_id = PyNone => k < MaxMinted
    /\ c.trace_id = PyStr(gen_trace_id(1)) => k >= 1

InitSharedInstance ==
    /\ InitRun({c \in SharedInstanceCalls : CanBeCalled(c, 0)})
    /\ self = NoFields

\* line 28: run() is called again on the same instance once the stream of the
\* call before has stopped
RunAgain ==
    /\ pc \in {"y_pause", "done", "failed"}
    /\ \E c \in SharedInstanceCalls :
          /\ CanBeCalled(c, minted)
          /\ NewGenerator(c)
    /\ last_pause' = IF IsFirstAttempt(call.clarification_answers)
                        /\ clarification_plan # NoPlan /\ ShouldAsk(clarification_plan)
                     THEN trace_id
                     ELSE last_pause
    /\ UNCHANGED <<self, validateVars, ui, handler, minted, resumed_pause, past_traces>>

NextSharedInstance == Next \/ RunAgain

SpecSharedInstance == InitSharedInstance /\ [][NextSharedInstance]_vars

WhyEchoed ==
    \E i \in 1..Len(events) : StartsWith(events[i], "**Why clarification was requested:** ")

ComplexityEchoed ==
    \E i \in 1..Len(events) : StartsWith(events[i], "**Query complexity level:** ")

\* an assessment was stored for the session of this call: the caller has set
\* it on the instance for this call, or the pause of this session did
StoredForThisSession == call.fields.has \/ last_pause = trace_id

\* C26: on a resume stream, past the header, the reasoning and the complexity
\* have been echoed exactly when an assessment was stored for the session of
\* this call, also when the instance has served another session before.
C26_EchoOfOwnSession ==
    (ResumeCall /\ pc \notin {"start", "y_qa_header", "y_why"}) =>
        /\ WhyEchoed <=> StoredForThisSession
        /\ ComplexityEchoed <=> StoredForThisSession

-----------------------------------------------------------------------------
(* The stages of a stream with two searches *)

\* first calls and resume calls that ask for two searches
StageCalls ==
    [query : {<<"q">>}, n_searches : {PyInt(2)},
     clarification_answers : {PyNone, SKIP, MappingOfOne},
     trace_id : {PyNone}, fields : {NoFields, StoredFields}]

InitStages == InitRun(StageCalls)

SpecStages == InitStages /\ [][Next]_vars

\* the search tasks that have been created and have not finished
RunningTasks == {i \in 1..Len(tasks) : ~tasks[i].done}

\* the generator is waiting for the assessor, the planner or the writer
AwaitingAgent == pc \in {"await_assessor", "await_planner", "await_writer"}

\* C27: the assessor, the planner and the writer are each invoked at most
\* once; while the assessor call is pending the planner has not been invoked,
\* while the planner call is pending no search task exists, while a search
\* task is running the writer has not been invoked, and no call of the
\* assessor, planner or writer is pending together with a running search.
C27_StageOrdering ==
    /\ invoked.assessor <= 1 /\ invoked.planner <= 1 /\ invoked.writer <= 1
    /\ pc = "await_assessor" =>
          invoked.planner = 0 /\ invoked.search = 0 /\ invoked.writer = 0
    /\ pc = "await_planner" => tasks = <<>> /\ invoked.search = 0 /\ invoked.writer = 0
    /\ invoked.planner = 1 /\ FirstCall => invoked.assessor = 1
    /\ tasks # <<>> => invoked.planner = 1
    /\ invoked.writer = 1 => invoked.planner = 1 /\ invoked.search = Len(tasks)
    /\ RunningTasks # {} => invoked.writer = 0 /\ ~AwaitingAgent

\* two searches overlap
C27_Witness ==
    /\ FirstCall
    /\ invoked.assessor = 1
    /\ Cardinality(RunningTasks) = 2

-----------------------------------------------------------------------------
(* Pulls of the consumer.  The generator runs only while the consumer waits  *)
(* for the next event: in a state whose pc names a yield, the consumer holds *)
(* the last event and the generator is suspended.                            *)

\* the event that announces the stage of a collaborator
StageEvent(who) ==
    CASE who = "assessor" -> <<"## Analyzing query complexity...">>
      [] who = "planner" -> GeneratingEvent
      [] who = "search" -> <<"## Searching...">>
      [] who = "writer" -> ThinkingEvent

\* the generator is suspended at the yield of that event
StageYield(who) ==
    CASE who = "assessor" -> "y_analyzing"
      [] who = "planner" -> "y_generating"
      [] who = "search" -> "y_searching"
      [] who = "writer" -> "y_thinking"

Collaborators == {"assessor", "planner", "search", "writer"}

\* a step invokes a collaborator only out of the yield of the event of its stage
C28_InvokeStep ==
    \A who \in Collaborators :
        invoked'[who] > invoked[who] =>
            /\ pc = StageYield(who)
            /\ events # <<>>
            /\ Last(events) = StageEvent(who)

\* C28: a collaborator is invoked only by the step that resumes the generator
\* from the yield of its stage's status event, so the consumer has that event
\* before the call is made and a stream that is not pulled makes no call; the
\* event of a stage is on the stream whenever its collaborator was invoked.
C28_PullDriven ==
    /\ [](\A who \in Collaborators :
            invoked[who] > 0 => \E i \in 1..Len(events) : events[i] = StageEvent(who))
    /\ [][C28_InvokeStep]_vars

C28_Witness ==
    /\ pc = "await_writer"
    /\ FirstCall
    /\ invoked.search = 2
    /\ Last(events) = ThinkingEvent

-----------------------------------------------------------------------------
(* The accumulator of the search loop *)

\* the summaries of the successful ones among the first n tasks to finish, in
\* the order they finished
FinishedSummaries(n) ==
    LET ok == SelectSeq(SubSeq(finished, 1, n), Succeeded)
    IN  [j \in 1..Len(ok) |-> tasks[ok[j]].result]

\* a step of the loop that has observed a completion, or the statements that
\* set both up before the loop
LoopWrites ==
    \/ pc = "await_task" /\ pc' = "y_completed"
    \/ pc = "y_searching" /\ results' = <<>> /\ num_completed' = 0

C29_WriteStep ==
    /\ (results' # results \/ num_completed' # num_completed) => LoopWrites
    /\ tasks' # tasks /\ tasks # <<>> => results' = results /\ num_completed' = num_completed

\* C29: results and num_completed change only in a step of the loop that
\* observes a completion, never in the step in which a search task ends; at
\* all times 0 <= len(results) <= num_completed <= number of launched tasks,
\* and results holds the summaries of the successful searches among those
\* observed, in the order they completed.
C29_AccumulatorOwnedByLoop ==
    /\ [](/\ 0 <= Len(results)
          /\ Len(results) <= num_completed
          /\ num_completed <= Len(tasks)
          /\ Len(tasks) = invoked.search
          /\ results = FinishedSummaries(num_completed))
    /\ [][C29_WriteStep]_vars

\* a later task was observed first and a failed search was left out
C29_Witness ==
    /\ pc = "y_completed"
    /\ Len(tasks) = 4
    /\ num_completed = 3
    /\ Len(results) = 2
    /\ collected[1] = 3
    /\ Cardinality(RunningTasks) = 0

-----------------------------------------------------------------------------
(* A consumer that leaves the stream during the searches *)

\* line 186: the generator is suspended at the yield of a completion event
\* and the consumer never asks for the next event, or closes the generator
\* (GeneratorExit is raised at the yield and nothing in the body handles it)
Abandon ==
    /\ pc = "y_completed"
    /\ pc' = "abandoned"
    /\ UNCHANGED <<frame, events, cursor>>

NextAbandon == Next \/ Abandon

\* the tasks of line 179 belong to the event loop, which runs every task that
\* can take a step
SpecAbandon == InitStages /\ [][NextAbandon]_vars /\ WF_vars(TaskFinishes)

\* nothing of the generator moves once the stream is abandoned
C30_AbandonedStep ==
    pc = "abandoned" =>
        /\ pc' = "abandoned"
        /\ events' = events
        /\ results' = results
        /\ num_completed' = num_completed
        /\ invoked' = invoked

\* C30: once the consumer has left the stream after a completion event, the
\* writer is not invoked, the generator takes no further step (what the
\* outstanding tasks return is never collected), and every search task that
\* was still running comes to its end.
C30_AbandonedSearchesEnd ==
    /\ [](pc = "abandoned" => invoked.writer = 0)
    /\ [][C30_AbandonedStep]_vars
    /\ (pc = "abandoned") ~> (pc = "abandoned" /\ RunningTasks = {})

\* a task has ended after the stream was abandoned; its result was not collected
C30_Witness ==
    /\ pc = "abandoned"
    /\ RunningTasks = {}
    /\ Len(finished) = 2
    /\ num_completed = 1
    /\ Len(collected) = 1

-----------------------------------------------------------------------------
(* The announcement of the plan *)

IsCountEvent(e) == StartsWith(e, "Will perform **")

CountIndex == CHOOSE i \in 1..Len(events) : IsCountEvent(events[i])

SearchingAnnounced == \E i \in 1..Len(events) : events[i] = <<"## Searching...">>

\* the events after the count announcement, up to '## Searching...'
Listing ==
    SubSeq(events, CountIndex + 1,
           IF SearchingAnnounced THEN SearchingIndex - 1 ELSE Len(events))

\* a 'Query:' event and a 'Reason:' event for each search of the plan
TwoPerSearch ==
    [j \in 1..(2 * Len(search_plan)) |->
        IF j % 2 = 1 THEN ItemQueryEvent(search_plan[(j + 1) \div 2])
        ELSE ItemReasonEvent(search_plan[j \div 2])]

\* the announced count is the size of the plan, which is the number of tasks
\* launched and the total of every completion event
CountsAgree ==
    /\ Cardinality({i \in 1..Len(events) : IsCountEvent(events[i])}) = 1
    /\ events[CountIndex] =
           <<"Will perform **">> \o IntStr(Len(search_plan))
           \o <<"** searches (validated: ">> \o IntStr(n_searches) \o <<" requested) \n">>
    /\ Len(tasks) \in {0, Len(search_plan)}
    /\ SearchingAnnounced /\ pc # "y_searching" => Len(tasks) = Len(search_plan)
    /\ invoked.search = Len(tasks)
    /\ \A k \in 1..Len(CompletedEvents) :
          CompletedEvents[k] = <<"Searching... ">> \o IntStr(k) \o <<"/">>
                               \o IntStr(Len(search_plan)) \o <<" completed \n">>

\* C31 as stated: the count announcement is followed, before '## Searching...',
\* by one event per planned search, which carries that search's query and
\* its reason, in plan order; and the counts agree.
C31_OneEventPerSearch ==
    Planned =>
        /\ CountsAgree
        /\ SearchingAnnounced =>
              /\ Len(Listing) = Len(search_plan)
              /\ \A i \in 1..Len(Listing) :
                    /\ Contains(Listing[i], search_plan[i].query)
                    /\ Contains(Listing[i], search_plan[i].reason)

\* C31 (amended): the count announcement is followed, before '## Searching...',
\* by two events per planned search, 'Query: **q**' and then 'Reason: r', in
\* plan order, and by nothing else; and the counts agree.
C31_TwoEventsPerSearch ==
    Planned =>
        /\ CountsAgree
        /\ IsPrefix(Listing, TwoPerSearch)
        /\ SearchingAnnounced =>
              /\ CountIndex < SearchingIndex
              /\ Listing = TwoPerSearch

C31_Witness ==
    /\ Len(planner_output) = 4
    /\ Len(tasks) = 2
    /\ Len(CompletedEvents) = 2
    /\ Len(Listing) = 4
    /\ FirstCall

-----------------------------------------------------------------------------
(* skip_clarification: the run it starts *)

\* the question event and the answer event of every pair of an all-skipped mapping
EchoedSkips ==
    [i \in 1..Len(CallItems) |->
        << <<"**Question ">> \o IntStr(i) \o <<":** ">> \o CallItems[i][1] \o <<" \t">>,
           <<"**Answer:** *[Skipped]* \t">> >>]

\* C32: the run started by skip_clarification uses the stored trace id,
\* echoes every stored question as skipped, never invokes the assessor, and
\* hands the planner the original query without any clarification context.
C32_SkipProceedsWithOriginalQuery ==
    handler = "skip_clarification" =>
        /\ resumed_pause # PyNone => call.trace_id = resumed_pause
        /\ invoked.assessor = 0
        /\ invoked.planner = 1 =>
              /\ MappingCall =>
                    \A i \in 1..Len(CallItems) :
                        Contains(events, EchoedSkips[i])
              /\ enhanced_query = <<"Query: ">> \o call.query

-----------------------------------------------------------------------------
(* run_research: the history and the pause event *)

\* what run_research has yielded last, having consumed events 1..k
OutputsAfter(k) ==
    run_research_loop(RunResearchStart(call.trace_id, call.clarification_answers),
                      SubSeq(events, 1, k))

\* event k reaches the loop body of run_research
Consumed(k) == k \in 1..Len(events) /\ OutputsAfter(k - 1).at = "iterating"

\* C33: the history of run_research only grows, by appending an event that
\* is not blank, and on an event that starts with the clarification marker
\* run_research yields one tuple whose status is the unchanged history, whose
\* report is empty and whose third element alone carries the marker, and
\* then returns without consuming a later event.
C33_PausePayloadHidden ==
    \A k \in 1..Len(events) :
        Consumed(k) =>
            LET before == OutputsAfter(k - 1)
                after == OutputsAfter(k)
            IN  /\ \/ after.history = before.history
                   \/ /\ Strip(events[k]) # <<>>
                      /\ after.history = before.history \o <<"\n">> \o events[k]
                /\ StartsWith(events[k], CLARIFICATION_MARKER) =>
                      /\ after.at = "returned"
                      /\ after.history = before.history
                      /\ after.status = before.history
                      /\ after.report = <<>>
                      /\ StartsWith(after.hidden, CLARIFICATION_MARKER)
                      /\ CountTok(after.status, CLARIFICATION_MARKER) = 0
                      /\ \A j \in (k + 1)..Len(events) : ~Consumed(j)

-----------------------------------------------------------------------------
(* The clarification State values across the handlers.  start_research is    *)
(* wired twice: to the click of the run button (lines 308-321) and to the    *)
(* Enter key in the query textbox (lines 336-346).                           *)

ENTER_KEY == "query_textbox.submit"

StartingHandlers == {"start_research", ENTER_KEY}

\* lines 336-341 and 208-217: start_research, started by the Enter key
SubmitQuery ==
    /\ handler = "none"
    /\ minted < MaxMinted
    /\ \E query \in Queries, n_searches_input \in SearchCountTexts :
          /\ ui' = [NoOutputs(ui) EXCEPT !.query = query,
                                         !.n_searches_input = n_searches_input]
          /\ IF Strip(query) = <<>>
             THEN /\ pc' = "rejected"
                  /\ handler' = ENTER_KEY
                  /\ UNCHANGED <<call, events, n_searches, trace_id, clarification_answers,
                                 self, clarification_plan, enhanced_query, planner_output,
                                 search_plan, cursor, searchVars, invoked, writer_input,
                                 report>>
             ELSE BeginRun(RunResearchCall(query, validate_n_searches(n_searches_input),
                                           PyNone, PyNone, NoFields),
                           ENTER_KEY)
    /\ resumed_pause' = PyNone
    /\ UNCHANGED <<validateVars, minted, last_pause, past_traces>>

\* lines 341-345: handle_research_output, chained to the Enter key.  Its
\* outputs list names eight components, stored_assessment is not among them:
\* the ninth value handle_research_output returns is written nowhere.
HandleResearchOutputOnSubmit ==
    /\ handler = ENTER_KEY
    /\ RunStopped \/ pc = "rejected"
    /\ LET out == StartOutputs
           new == handle_research_output(out.status, out.report, out.hidden)
       IN  ui' = IF HandleOutputRaises(out.hidden)
                 THEN [ui EXCEPT !.status = out.status, !.report = out.report,
                                 !.history = out.hidden]
                 ELSE [query |-> ui.query,
                       n_searches_input |-> ui.n_searches_input,
                       status |-> new.status,
                       report |-> out.report,
                       history |-> new.history,
                       clarification_display |-> new.clarification_display,
                       answers_text |-> <<>>,
                       search_validation |-> ui.search_validation,
                       stored_questions |-> new.stored_questions,
                       clarification_needed |-> new.clarification_needed,
                       current_trace_id |-> new.current_trace_id,
                       stored_assessment |-> ui.stored_assessment]
    /\ handler' = "none"
    /\ last_pause' = IF pc = "y_pause" THEN PyStr(TraceIdCarried(Last(events))) ELSE PyNone
    /\ past_traces' = IF pc = "rejected" THEN past_traces ELSE past_traces \cup {trace_id}
    /\ UNCHANGED <<runVars, validateVars, minted, resumed_pause>>

NextEnterKey ==
    \/ NextUI
    \/ SubmitQuery
    \/ HandleResearchOutputOnSubmit

SpecEnterKey == InitUI /\ [][NextEnterKey]_vars

\* all four State values of the clarification are cleared
IsCleared(u) ==
    /\ ~u.clarification_needed
    /\ u.stored_questions = PyStr(<<>>)
    /\ u.current_trace_id = PyStr(<<>>)
    /\ u.stored_assessment = PyStr(<<>>)

\* handle_research_output writes its outputs
HandleOutputStep == handler \in StartingHandlers /\ handler' = "none"

\* a step of handle_clarification_submit or skip_clarification that writes outputs
ResumeOutputStep ==
    \/ handler \in ResumingHandlers
    \/ handler' \in ResumingHandlers
    \/ handler = "none" /\ handler' = "none"

\* C34: handle_research_output sets clarification_needed and stores the
\* questions, the trace id and the assessment if and only if the hidden output
\* of the run begins with the clarification marker, and clears all four
\* otherwise; while clarification_needed is false no resuming handler starts
\* a run or invokes a collaborator; every output of handle_clarification_submit
\* and skip_clarification leaves all four cleared.
C34_ClarificationStateMachine ==
    /\ [][HandleOutputStep =>
            IF StartsWith(StartOutputs.hidden, CLARIFICATION_MARKER)
            THEN /\ ui'.clarification_needed
                 /\ ui'.stored_questions = JsonText(clarification_plan.questions)
                 /\ ui'.current_trace_id = trace_id
                 /\ ui'.stored_assessment =
                        JsonText([has |-> TRUE,
                                  reasoning |-> clarification_plan.assessment.reasoning,
                                  complexity |-> clarification_plan.assessment.complexity])
            ELSE IsCleared(ui')]_vars
    /\ [][handler = "none" /\ ~ui.clarification_needed =>
            /\ handler' \notin ResumingHandlers
            /\ invoked' = invoked \/ handler' \in StartingHandlers]_vars
    /\ [][ResumeOutputStep => IsCleared(ui')]_vars

-----------------------------------------------------------------------------
(* start_research with an empty query *)

EnterQuestionMessage == <<"Please enter a research question.">>

\* start_research is called with a query that is empty or all whitespace
EmptyQueryStep ==
    handler = "none" /\ handler' = "start_research" /\ Blank(ui'.query)

\* the only output of start_research has been yielded and the handler is over
RejectedStep == handler = "start_research" /\ pc = "rejected"

\* C35: start_research with an empty or whitespace-only query yields one
\* output, 'Please enter a research question.' with an empty report and an
\* empty history, and stops: no ResearchManager is created, no trace id is
\* minted and no collaborator is invoked.
C35_EmptyQueryRejected ==
    /\ [][EmptyQueryStep =>
            /\ pc' = "rejected"
            /\ StartOutputs' = [status |-> EnterQuestionMessage, report |-> <<>>,
                                hidden |-> <<>>]
            /\ UNCHANGED <<call, self, events, trace_id, invoked, minted>>]_vars
    /\ [][RejectedStep =>
            /\ handler' = "none"
            /\ ui'.status = EnterQuestionMessage
            /\ ui'.report = <<>>
            /\ ui'.history = <<>>
            /\ ~ui'.clarification_needed
            /\ UNCHANGED <<call, self, events, trace_id, invoked, minted, pc>>]_vars

C35_Witness ==
    /\ pc = "rejected"
    /\ handler = "none"
    /\ ui.query = <<" ">>
    /\ ui.status = EnterQuestionMessage
    /\ minted = 1
    /\ past_traces # {}

-----------------------------------------------------------------------------
(* The feedback on the number of searches (deep_research.py lines 243-254)   *)
(* and the two copies of validate_n_searches                                 *)

\* deep_research.py lines 13-24: int() raises what line 23 does not catch
UiValidateRaises(x) == Truthy(x) /\ ~PyIntOf(x).ok /\ PyIntOf(x).err \notin Caught

\* deep_research.py lines 13-24: the copy of validate_n_searches the handlers call
ui_validate_n_searches(x) ==
    LET n == IF Truthy(x) THEN PyIntOf(x) ELSE [ok |-> TRUE, v |-> DEFAULT_SEARCHES]
    IN  IF ~n.ok THEN DEFAULT_SEARCHES
        ELSE IF n.v < MIN_SEARCHES THEN MIN_SEARCHES
        ELSE IF n.v > MAX_SEARCHES THEN MAX_SEARCHES
        ELSE n.v

\* lines 245-246: int() raises what line 253 does not catch
ShowValidationRaises(x) == Truthy(x) /\ ~PyIntOf(x).ok /\ PyIntOf(x).err \notin Caught

\* a feedback that names the number the user asked for
ShowRequestedCount(x) ==
    LET n == IF Truthy(x) THEN PyIntOf(x) ELSE [ok |-> TRUE, v |-> DEFAULT_SEARCHES]
    IN  IF ~n.ok
        THEN <<"Invalid input. Using default: ">> \o IntStr(DEFAULT_SEARCHES) \o <<" searches.">>
        ELSE <<"Will perform ">> \o IntStr(IF n.v < 0 THEN 0 - n.v ELSE n.v) \o <<" searches.">>

\* lines 243-254: the message, without the symbol it starts with
show_search_validation(x) ==
    LET n == IF Truthy(x) THEN PyIntOf(x) ELSE [ok |-> TRUE, v |-> DEFAULT_SEARCHES]
    IN  IF ~n.ok
        THEN <<"Invalid input. Using default: ">> \o IntStr(DEFAULT_SEARCHES) \o <<" searches.">>
        ELSE IF n.v < MIN_SEARCHES
        THEN <<"Minimum ">> \o IntStr(MIN_SEARCHES) \o <<" search required. Using ">>
             \o IntStr(MIN_SEARCHES) \o <<".">>
        ELSE IF n.v > MAX_SEARCHES
        THEN <<"Maximum ">> \o IntStr(MAX_SEARCHES) \o <<" searches allowed. Using ">>
             \o IntStr(MAX_SEARCHES) \o <<".">>
        ELSE <<"Will perform ">> \o IntStr(n.v) \o <<" searches.">>

\* lines 347-351: n_searches_textbox.change calls show_search_validation with
\* what the textbox holds and writes the message to search_validation
ShowSearchValidation ==
    /\ handler = "direct"
    /\ ~ShowValidationRaises(vin)
    /\ ui' = [ui EXCEPT !.search_validation = show_search_validation(vin)]
    /\ UNCHANGED <<runVars, validateVars, handler, minted, last_pause, resumed_pause,
                   past_traces>>

\* the same input is shown its feedback and handed to validate_n_searches
NextFeedback ==
    \/ ShowSearchValidation
    \/ ValidateCall

SpecFeedback == InitValidate /\ [][NextFeedback]_vars

\* the text in front of the count a message announces
CountLeads ==
    {" search required. Using ", " searches allowed. Using ", "Will perform ",
     "Invalid input. Using default: "}

DecimalDigits == {"0", "1", "2", "3", "4", "5", "6", "7", "8", "9"}

IsDecimalDigit(tok) == tok \in DecimalDigits

\* the number a message names: the digits that follow 'Using', 'Will
\* perform' or 'Using default:'
NamedCount(msg) ==
    LET k == CHOOSE i \in 1..Len(msg) : msg[i] \in CountLeads
    IN  SelectSeq(SubSeq(msg, k + 1, Len(msg)), IsDecimalDigit)

\* C36: the number show_search_validation names in its message is what
\* validate_n_searches returns for the same input, and the copy of
\* validate_n_searches in the UI module and the copy in the manager module
\* return the same value (and raise for the same inputs).
C36_FeedbackAgreesWithCount ==
    /\ ui.search_validation # <<>> =>
          /\ ~ValidateRaises(vin)
          /\ NamedCount(ui.search_validation) = IntStr(validate_n_searches(vin))
          /\ NamedCount(ui.search_validation) = IntStr(ui_validate_n_searches(vin))
    /\ ShowValidationRaises(vin) <=> ValidateRaises(vin)
    /\ pc = "returned" => ~UiValidateRaises(vin) /\ vout = ui_validate_n_searches(vin)
    /\ pc = "raised" => UiValidateRaises(vin)

C36_Witness ==
    /\ vin = PyInt(7)
    /\ pc = "returned"
    /\ vout = 5
    /\ ui.search_validation = <<"Maximum ", "5", " searches allowed. Using ", "5", ".">>

-----------------------------------------------------------------------------
(* llm_debate/gradio_ui.py: capture_api_calls and stream_debate.  A function *)
(* that can be patched is the number of wrappers around the original; a      *)
(* saved original is None or PyInt of that number.  Which packages can be    *)
(* imported, and whether the attribute a patch reads exists, is a property   *)
(* of the installation: env.                                                 *)

MaxDebates == 2        \* stream_debate is called at most this often

Installations ==
    [litellm : {"installed", "absent"},
     openai : {"installed", "absent", "unreadable"},
     anthropic : {"patchable", "absent", "unreadable"}]

Motions == {<<"m">>, <<" ">>, <<>>}

\* lines 129-131: the locals of a call of capture_api_calls
Locals(d) ==
    [d EXCEPT !.original_litellm = PyNone, !.original_openai = PyNone,
              !.original_anthropic = PyNone]

\* lines 158-178: the fallback; ImportError is passed over, any other
\* exception of `openai.chat.completions.create` leaves capture_api_calls
PatchOpenAI(d) ==
    CASE d.env.openai = "installed" ->
            [d EXCEPT !.original_openai = PyInt(d.openai_create),
                      !.openai_create = d.openai_create + 1]
      [] d.env.openai = "absent" -> d
      [] d.env.openai = "unreadable" -> [d EXCEPT !.pc = "raising"]

\* lines 133-178
PatchLitellm(d) ==
    IF d.env.litellm = "installed"
    THEN [d EXCEPT !.original_litellm = PyInt(d.litellm_completion),
                   !.litellm_completion = d.litellm_completion + 1]
    ELSE PatchOpenAI(d)

\* lines 180-198: ImportError is passed over, any other exception of
\* `anthropic.Anthropic.messages.create` leaves capture_api_calls; the try
\* block of lines 200-223 has not been entered yet
PatchAnthropic(d) ==
    IF d.pc = "raising" THEN d
    ELSE CASE d.env.anthropic = "patchable" ->
                 [d EXCEPT !.original_anthropic = PyInt(d.anthropic_create),
                           !.anthropic_create = d.anthropic_create + 1]
           [] d.env.anthropic = "absent" -> d
           [] d.env.anthropic = "unreadable" -> [d EXCEPT !.pc = "raising"]

\* lines 127-198: capture_api_calls up to its yield
capture_api_calls(d) == PatchAnthropic(PatchLitellm(Locals(d)))

\* lines 203-223: the finally block
Restore(d) ==
    [d EXCEPT !.litellm_completion =
                  IF d.original_litellm # PyNone THEN d.original_litellm.v ELSE @,
              !.openai_create =
                  IF d.original_openai # PyNone THEN d.original_openai.v ELSE @,
              !.anthropic_create =
                  IF d.original_anthropic # PyNone THEN d.original_anthropic.v ELSE @]

Stages == <<"propose", "oppose", "decide">>

Speakers == <<"**Debater FOR**: ", "**Debater AGAINST**: ">>

Output(chat, judge, status) == [chat |-> chat, judge |-> judge, status |-> status]

\* line 300
PromptOutput ==
    Output(<<>>, "Please enter a motion for the debate.", "**Status:** Waiting for topic")

\* line 394
ErrorOutput == Output(<<>>, "**Error:** ", "**Status:** Error")

\* lines 326, 348 and 367: the output in front of a stage
BeforeOutput(chat, stage) ==
    CASE stage = 1 ->
            Output(chat, "*Debate starting...*",
                   "**Status:** FOR debater is preparing argument...")
      [] stage = 2 ->
            Output(chat, "*AGAINST debater is preparing response...*",
                   "**Status:** AGAINST debater is preparing argument...")
      [] stage = 3 ->
            Output(chat, "*Judge is deliberating...*",
                   "**Status:** Judge is making decision...")

\* lines 345 and 364: the output after an argument was read
AfterOutput(chat, stage) ==
    IF stage = 1
    THEN Output(chat, "*AGAINST debater is preparing response...*",
                "**Status:** FOR debater completed - AGAINST debater preparing...")
    ELSE Output(chat, "*Judge is deliberating...*",
                "**Status:** Both debaters completed - Judge deliberating...")

\* lines 380-391
VerdictOutput(chat, written) ==
    Output(chat,
           IF written THEN "## Final Verdict\n\ndecision"
           ELSE "## Final Verdict\n\nNo decision available",
           "**Status:** Debate complete!")

\* a patched function adds a call to api_logger when the crew calls the model
Patched(d) == d.litellm_completion > 0 \/ d.openai_create > 0 \/ d.anthropic_create > 0

\* the installation is met by the first call and stays what it is
Installed(d, env) == IF d.runs = 0 THEN env ELSE d.env

\* lines 297-326: stream_debate is called and pulled for its first output
StartDebate ==
    /\ handler = "direct"
    /\ llm_debate.pc \in {"idle", "done"}
    /\ llm_debate.runs < MaxDebates
    /\ \E motion \in Motions, crew_ok \in BOOLEAN, env \in Installations :
          LET d == [llm_debate EXCEPT !.motion = motion, !.runs = @ + 1, !.stage = 0,
                                      !.env = Installed(llm_debate, env),
                                      !.started = <<>>, !.finished = <<>>,
                                      !.chat_messages = <<>>]
              c == capture_api_calls([d EXCEPT !.calls = 0])
          IN  llm_debate' =
                  IF Strip(motion) = <<>>
                  THEN [d EXCEPT !.pc = "y_prompt", !.outputs = <<PromptOutput>>]
                  ELSE IF ~crew_ok
                  THEN [d EXCEPT !.calls = 0, !.pc = "y_error", !.outputs = <<ErrorOutput>>]
                  ELSE IF c.pc = "raising"
                  THEN [c EXCEPT !.pc = "y_error", !.outputs = <<ErrorOutput>>]
                  ELSE [c EXCEPT !.pc = "y_before", !.stage = 1,
                                 !.outputs = <<BeforeOutput(<<>>, 1)>>]
    /\ UNCHANGED <<runVars, vin, vout, uiVars>>

\* lines 328-335, 350-357 and 369-376: the crew of the stage is kicked off
Kickoff ==
    /\ llm_debate.pc = "y_before"
    /\ llm_debate' = [llm_debate EXCEPT
                          !.pc = "running",
                          !.started = Append(@, Stages[llm_debate.stage]),
                          !.calls = IF Patched(llm_debate) THEN @ + 1 ELSE @]
    /\ UNCHANGED <<runVars, vin, vout, uiVars>>

\* a stage that raised, after which the next stage is run all the same
StageRaisesContinues ==
    /\ llm_debate.pc = "running"
    /\ llm_debate.stage < 3
    /\ llm_debate' = [llm_debate EXCEPT
                          !.pc = "y_before",
                          !.stage = @ + 1,
                          !.outputs = Append(@, ErrorOutput)]
    /\ UNCHANGED <<runVars, vin, vout, uiVars>>

\* kickoff raises: the with block is left through the finally block of
\* capture_api_calls, and lines 393-394 yield the error output
StageRaises ==
    /\ llm_debate.pc = "running"
    /\ llm_debate' = [Restore(llm_debate) EXCEPT
                          !.pc = "y_error",
                          !.outputs = Append(@, ErrorOutput)]
    /\ UNCHANGED <<runVars, vin, vout, uiVars>>

\* lines 336-348, 358-367 and 377-391: kickoff returns, the file of the stage
\* was written or not, and the next output is yielded
StageReturns ==
    /\ llm_debate.pc = "running"
    /\ \E written \in BOOLEAN :
          LET d == [llm_debate EXCEPT !.finished = Append(@, Stages[llm_debate.stage])]
              chat == IF written THEN Append(d.chat_messages, Speakers[d.stage])
                      ELSE d.chat_messages
          IN  llm_debate' =
                  IF d.stage = 3
                  THEN [d EXCEPT !.pc = "y_verdict",
                                 !.outputs = Append(@, VerdictOutput(d.chat_messages, written))]
                  ELSE IF written
                  THEN [d EXCEPT !.pc = "y_after", !.chat_messages = chat,
                                 !.outputs = Append(@, AfterOutput(chat, d.stage))]
                  ELSE [d EXCEPT !.pc = "y_before", !.stage = @ + 1,
                                 !.outputs = Append(@, BeforeOutput(chat, d.stage + 1))]
    /\ UNCHANGED <<runVars, vin, vout, uiVars>>

\* lines 348 and 367: the output in front of the next stage
NextStageStep ==
    /\ llm_debate.pc = "y_after"
    /\ llm_debate' = [llm_debate EXCEPT
                          !.pc = "y_before",
                          !.stage = @ + 1,
                          !.outputs = Append(@, BeforeOutput(llm_debate.chat_messages,
                                                             llm_debate.stage + 1))]
    /\ UNCHANGED <<runVars, vin, vout, uiVars>>

\* the generator is pulled after its last output: after the verdict the with
\* block is left normally; after the error output or the prompt it just ends
EndDebate ==
    /\ llm_debate.pc \in {"y_verdict", "y_error", "y_prompt"}
    /\ llm_debate' = IF llm_debate.pc = "y_verdict"
                     THEN [Restore(llm_debate) EXCEPT !.pc = "done"]
                     ELSE [llm_debate EXCEPT !.pc = "done"]
    /\ UNCHANGED <<runVars, vin, vout, uiVars>>

InitDebate ==
    /\ InitValidate
    /\ vin = PyNone

NextDebate ==
    \/ StartDebate
    \/ Kickoff
    \/ StageReturns
    \/ StageRaises
    \/ NextStageStep
    \/ EndDebate

SpecDebate == InitDebate /\ [][NextDebate]_vars

\* capture_api_calls is not active: stream_debate is not inside the with block
OutsideCapture == llm_debate.pc \in {"idle", "y_prompt", "y_error", "done"}

\* C37: whenever capture_api_calls has been left, after a body that finished
\* or raised or after a set-up that raised, litellm.completion,
\* openai.chat.completions.create and anthropic's messages.create are the
\* original functions again.
C37_NoPatchLeftBehind ==
    OutsideCapture =>
        /\ llm_debate.litellm_completion = 0
        /\ llm_debate.openai_create = 0
        /\ llm_debate.anthropic_create = 0

-----------------------------------------------------------------------------
(* stream_debate: the order of the stages and of the outputs *)

DebateOutputs == llm_debate.outputs

IsVerdict(o) == o.status = "**Status:** Debate complete!"

\* the stages run in the order propose, oppose, decide, one at a time
StagesInOrder ==
    /\ IsPrefix(llm_debate.started, Stages)
    /\ IsPrefix(llm_debate.finished, llm_debate.started)
    /\ Len(llm_debate.started) <= Len(llm_debate.finished) + 1

\* a stage is started within a call only when every stage started before has finished
StageStartedAfterPrevious ==
    llm_debate'.started # llm_debate.started /\ llm_debate'.runs = llm_debate.runs =>
        /\ llm_debate.finished = llm_debate.started
        /\ llm_debate'.started = Append(llm_debate.started, Stages[Len(llm_debate.started) + 1])

\* the chat history of the outputs only grows, FOR before AGAINST; the error
\* output and the verdict come last, and the verdict after all three stages
OutputsInOrder ==
    /\ \A i \in 1..Len(DebateOutputs) :
          /\ DebateOutputs[i].chat \in {<<>>, <<Speakers[1]>>, <<Speakers[2]>>, Speakers}
          /\ DebateOutputs[i] = ErrorOutput => i = Len(DebateOutputs)
          /\ IsVerdict(DebateOutputs[i]) =>
                i = Len(DebateOutputs) /\ llm_debate.finished = Stages
          /\ i > 1 /\ DebateOutputs[i] # ErrorOutput =>
                IsPrefix(DebateOutputs[i - 1].chat, DebateOutputs[i].chat)
    /\ llm_debate.pc \in {"y_before", "y_after", "y_verdict", "y_error", "y_prompt"} =>
          DebateOutputs # <<>>

\* the stream of a motion that is not empty has ended
DebateEnded == llm_debate.pc = "done" /\ ~Blank(llm_debate.motion)

\* its last output is the verdict or the one error output; a stage that
\* raised is followed by the error output
EndsWithVerdictOrError ==
    DebateEnded =>
        /\ IsVerdict(Last(DebateOutputs)) \/ Last(DebateOutputs) = ErrorOutput
        /\ llm_debate.started # llm_debate.finished => Last(DebateOutputs) = ErrorOutput

\* after the error output no stage is run before the next call
NoStageAfterError ==
    DebateOutputs # <<>> /\ Last(DebateOutputs) = ErrorOutput
    /\ llm_debate'.runs = llm_debate.runs =>
        /\ llm_debate'.started = llm_debate.started
        /\ llm_debate'.outputs = llm_debate.outputs

\* stream_debate is called with an empty or whitespace-only motion
EmptyMotionStep == llm_debate'.runs = llm_debate.runs + 1 /\ Blank(llm_debate'.motion)

\* one prompt, no stage, and the logs of api_logger are as they were
EmptyMotionPrompts ==
    /\ EmptyMotionStep =>
          /\ llm_debate'.outputs = <<PromptOutput>>
          /\ llm_debate'.pc = "y_prompt"
          /\ llm_debate'.started = <<>>
          /\ llm_debate'.calls = llm_debate.calls
    /\ llm_debate.pc = "y_prompt" =>
          /\ llm_debate'.pc = "done"
          /\ llm_debate'.outputs = llm_debate.outputs
          /\ llm_debate'.started = llm_debate.started
          /\ llm_debate'.calls = llm_debate.calls

\* C38: stream_debate runs propose, oppose and decide in this order, each
\* started only after the one before has finished; the chat history of its
\* outputs only grows, FOR before AGAINST, up to the last output, which is
\* the 'Debate complete!' verdict after all three stages or, if a stage
\* raises, one error output after which no stage is run; an empty motion
\* yields one prompt, runs no stage and clears no logs.
C38_StagesInOrder ==
    /\ [](StagesInOrder /\ OutputsInOrder /\ EndsWithVerdictOrError)
    /\ [][StageStartedAfterPrevious /\ NoStageAfterError /\ EmptyMotionPrompts]_vars

C38_Witness ==
    /\ llm_debate.pc = "done"
    /\ llm_debate.finished = Stages
    /\ IsVerdict(Last(DebateOutputs))
    /\ Last(DebateOutputs).chat = Speakers
    /\ Len(DebateOutputs) = 6
    /\ llm_debate.calls = 3

=============================================================================
